---- MODULE Spec2Model ----
(***************************************************************************)
(* BioCarta backend: the normalization, resolution and derivation pipeline *)
(* (backend/domain/normalize.py, backend/domain/composites.py), the        *)
(* biological-age estimates (backend/domain/bioage.py) and the API         *)
(* handlers that store measurements (backend/api/measurements.py,          *)
(* backend/api/uploads.py), run one at a time and as concurrent requests.  *)
(*                                                                         *)
(* Strings the code inspects character by character (observed names,       *)
(* biomarker codes, timestamps, birth dates) are sequences of one-character*)
(* strings.  Floats are exact rationals [n, d].  Tables are sequences in   *)
(* the order the database returns their rows.                              *)
(***************************************************************************)
EXTENDS Integers, Sequences, FiniteSets, TLC

VARIABLES biomarkers, synonyms, conversions, ranges, users, measurements, now, ticks, ret,
          sessions

\* sessions: the requests in flight, each with its own database session and
\* its position in its handler

vars ==
  <<biomarkers, synonyms, conversions, ranges, users, measurements, now, ticks, ret, sessions>>

(***************************************************************************)
(* Bounds of the model.                                                    *)
(***************************************************************************)
MaxNameLen == 2
MaxBiomarkers == 2
MaxSynonyms == 1
MaxConversions == 2
MaxRanges == 3
MaxMeasurements == 2
MaxTicks == 1
MaxItems == 2

None == [none |-> TRUE]
\* Python's None where a string is expected
NoneStr == <<"None">>

(***************************************************************************)
(* Sequences.                                                              *)
(***************************************************************************)
SeqsUpTo(S, n) == UNION {[1..k -> S] : k \in 0..n}

Prefix(s, n) == IF Len(s) <= n THEN s ELSE SubSeq(s, 1, n)

IsSubstring(a, b) ==
  \E i \in 0..(Len(b) - Len(a)) : SubSeq(b, i + 1, i + Len(a)) = a

MapSeq(F(_), s) == [i \in 1..Len(s) |-> F(s[i])]

(***************************************************************************)
(* Exact rationals for the code's floats.                                  *)
(***************************************************************************)
Abs(x) == IF x < 0 THEN -x ELSE x

RECURSIVE GCD(_, _)
GCD(a, b) == IF b = 0 THEN a ELSE GCD(b, a % b)

Rat(n, d) ==
  LET s == IF d < 0 THEN -1 ELSE 1
      g == GCD(Abs(n), Abs(d))
  IN [n |-> (s * n) \div g, d |-> (s * d) \div g]

R(i) == [n |-> i, d |-> 1]
RLt(a, b) == a.n * b.d < b.n * a.d
RLe(a, b) == a.n * b.d <= b.n * a.d
RAdd(a, b) == Rat(a.n * b.d + b.n * a.d, a.d * b.d)
RSub(a, b) == Rat(a.n * b.d - b.n * a.d, a.d * b.d)
RMul(a, b) == Rat(a.n * b.n, a.d * b.d)
RDiv(a, b) == Rat(a.n * b.d, a.d * b.n)

(***************************************************************************)
(* Unit conversion: normalize.py convert_unit over the unit_conversions    *)
(* table (models/unitconv.py).                                             *)
(***************************************************************************)
Units == {"mg/dL", "mmol/L", "g/L"}

\* rows of unit_conversions matching filter_by(from_unit, to_unit), in table order
ConvHits(table, from_unit, to_unit) ==
  {i \in DOMAIN table : table[i].from_unit = from_unit /\ table[i].to_unit = to_unit}

First(S) == CHOOSE i \in S : \A j \in S : i <= j

ConvertUnit_NoShortCircuit(table, value, from_unit, to_unit) ==
  LET hits == ConvHits(table, from_unit, to_unit)
  IN IF hits = {} THEN value
     ELSE RAdd(RMul(value, table[First(hits)].factor), table[First(hits)].offset)

ConvertUnit_ReverseEdge(table, value, from_unit, to_unit) ==
  IF from_unit = to_unit THEN value
  ELSE LET hits == ConvHits(table, from_unit, to_unit) \cup ConvHits(table, to_unit, from_unit)
       IN IF hits = {} THEN value
          ELSE RAdd(RMul(value, table[First(hits)].factor), table[First(hits)].offset)

ConvertUnit(table, value, from_unit, to_unit) ==
  IF from_unit = to_unit THEN value
  ELSE LET hits == ConvHits(table, from_unit, to_unit)
       IN IF hits = {} THEN value
          ELSE RAdd(RMul(value, table[First(hits)].factor), table[First(hits)].offset)

(***************************************************************************)
(* Classification: normalize.py status_against_ref.                        *)
(***************************************************************************)
StatusAgainstRef_ExclusiveBounds(value, low, high) ==
  IF low = None \/ high = None \/ high = low THEN "unknown"
  ELSE IF RLt(value, low) \/ RLt(high, value) THEN "out_of_range"
  ELSE LET pos == RDiv(RSub(value, low), RSub(high, low))
       IN IF RLt(Rat(3, 10), pos) /\ RLt(pos, Rat(7, 10)) THEN "optimal"
          ELSE "borderline"

StatusAgainstRef(value, low, high) ==
  IF low = None \/ high = None \/ high = low THEN "unknown"
  ELSE IF RLt(value, low) \/ RLt(high, value) THEN "out_of_range"
  ELSE LET pos == RDiv(RSub(value, low), RSub(high, low))
       IN IF RLe(Rat(3, 10), pos) /\ RLe(pos, Rat(7, 10)) THEN "optimal"
          ELSE "borderline"

(***************************************************************************)
(* Characters: Python str methods and SQLite's lower().  "de"/"DE" stand   *)
(* for a non-ASCII cased letter (Cyrillic small/capital de).               *)
(***************************************************************************)
DigitChars == <<"0", "1", "2", "3", "4", "5", "6", "7", "8", "9">>

IsDigit(c) == \E i \in 1..10 : DigitChars[i] = c

DigitVal(c) == (CHOOSE i \in 1..10 : DigitChars[i] = c) - 1

\* code points of the characters that occur in timestamps
Ord(c) ==
  IF c = "-" THEN 45 ELSE IF c = "." THEN 46
  ELSE IF IsDigit(c) THEN 48 + DigitVal(c)
  ELSE IF c = ":" THEN 58 ELSE 84

PyUpperChar(c) ==
  IF c = "a" THEN "A" ELSE IF c = "b" THEN "B" ELSE IF c = "de" THEN "DE" ELSE c

PyLowerChar(c) ==
  IF c = "A" THEN "a" ELSE IF c = "B" THEN "b" ELSE IF c = "DE" THEN "de" ELSE c

\* SQLite's built-in lower() folds ASCII letters only (core/config.py: sqlite)
SqlLowerChar(c) == IF c = "A" THEN "a" ELSE IF c = "B" THEN "b" ELSE c

PyUpper(s) == MapSeq(PyUpperChar, s)
PyLower(s) == MapSeq(PyLowerChar, s)
SqlLower(s) == MapSeq(SqlLowerChar, s)

RECURSIVE LStrip(_)
LStrip(s) == IF s # <<>> /\ s[1] = " " THEN LStrip(Tail(s)) ELSE s

RECURSIVE RStrip(_)
RStrip(s) ==
  IF s # <<>> /\ s[Len(s)] = " " THEN RStrip(SubSeq(s, 1, Len(s) - 1)) ELSE s

PyStrip(s) == RStrip(LStrip(s))

\* str.replace(old, new) for one-character old and new
PyReplace(s, old, new) == [i \in 1..Len(s) |-> IF s[i] = old THEN new ELSE s[i]]

\* str.split(sep)[0]
RECURSIVE SplitFirst(_, _)
SplitFirst(s, sep) ==
  IF s = <<>> \/ s[1] = sep THEN <<>> ELSE <<s[1]>> \o SplitFirst(Tail(s), sep)

RECURSIVE DigitsValue(_)
DigitsValue(s) ==
  IF s = <<>> THEN 0 ELSE 10 * DigitsValue(SubSeq(s, 1, Len(s) - 1)) + DigitVal(s[Len(s)])

\* int(s): surrounding whitespace and one sign allowed, otherwise ValueError
PyInt(s) ==
  LET t == PyStrip(s)
      signed == t # <<>> /\ t[1] \in {"-", "+"}
      u == IF signed THEN Tail(t) ELSE t
      ok == u # <<>> /\ \A i \in 1..Len(u) : IsDigit(u[i])
  IN [ok |-> ok,
      v |-> IF ~ok THEN 0 ELSE IF signed /\ t[1] = "-" THEN -DigitsValue(u) ELSE DigitsValue(u)]

\* str(n) for n >= 0
RECURSIVE PyStr(_)
PyStr(n) == IF n < 10 THEN <<DigitChars[n + 1]>> ELSE PyStr(n \div 10) \o <<DigitChars[(n % 10) + 1]>>

Pad2(n) == <<DigitChars[(n \div 10) + 1], DigitChars[(n % 10) + 1]>>
Pad4(n) == Pad2(n \div 100) \o Pad2(n % 100)

(***************************************************************************)
(* Clock and calendar.  An instant is [day, hour]; day 0 is 2024-01-01.    *)
(***************************************************************************)
IsLeap(y) == (y % 4 = 0 /\ y % 100 # 0) \/ y % 400 = 0
DaysInYear(y) == IF IsLeap(y) THEN 366 ELSE 365
DaysInMonth(y, m) ==
  IF m = 2 THEN (IF IsLeap(y) THEN 29 ELSE 28)
  ELSE IF m \in {4, 6, 9, 11} THEN 30 ELSE 31

RECURSIVE MonthDay(_, _, _)
MonthDay(y, m, n) ==
  IF n < DaysInMonth(y, m) THEN [y |-> y, m |-> m, d |-> n + 1]
  ELSE MonthDay(y, m + 1, n - DaysInMonth(y, m))

RECURSIVE YearDay(_, _)
YearDay(y, n) == IF n < DaysInYear(y) THEN MonthDay(y, 1, n) ELSE YearDay(y + 1, n - DaysInYear(y))

\* the instant the model starts at, and the days a clock step may add
StartInstant == [day |-> 731 + 304, hour |-> 5]

TickDays == {31}

\* the last day the clock can reach
LastDay == StartInstant.day + MaxTicks * (CHOOSE d \in TickDays : \A e \in TickDays : e <= d)

\* the calendar date of each day the model can name, day 0 being 2024-01-01
DateTable == [day \in 0..LastDay |-> YearDay(2024, day)]

DateOf(day) == DateTable[day]

\* date.isoformat(): YYYY-MM-DD
IsoDate(day) ==
  LET c == DateOf(day) IN Pad4(c.y) \o <<"-">> \o Pad2(c.m) \o <<"-">> \o Pad2(c.d)

\* datetime.isoformat() of an instant on the hour: YYYY-MM-DDTHH:00:00
IsoFormat(t) == IsoDate(t.day) \o <<"T">> \o Pad2(t.hour) \o <<":", "0", "0", ":", "0", "0">>

\* strftime('%d.%m.%Y')
DmyDate(day) ==
  LET c == DateOf(day) IN Pad2(c.d) \o <<".">> \o Pad2(c.m) \o <<".">> \o Pad4(c.y)

\* t - timedelta(days=k)
MinusDays(t, k) == [day |-> t.day - k, hour |-> t.hour]

\* s < t in the code-point order of SQLite's (BINARY) text comparison
RECURSIVE LexLessFrom(_, _, _)
LexLessFrom(s, t, i) ==
  IF i > Len(t) THEN FALSE
  ELSE IF i > Len(s) THEN TRUE
  ELSE IF s[i] = t[i] THEN LexLessFrom(s, t, i + 1)
  ELSE Ord(s[i]) < Ord(t[i])

LexLess(s, t) == LexLessFrom(s, t, 1)

\* a >= b as the database compares two text columns
StrGe(a, b) == ~LexLess(a, b)

(***************************************************************************)
(* Reference range selection: normalize.py select_reference.               *)
(***************************************************************************)
Unknown == [known |-> FALSE, v |-> 0]
Known(x) == [known |-> TRUE, v |-> x]

CurrentYear(t) == DateOf(t.day).y

\* the age computed inside score(): None unless the birth date is truthy and
\* the text before its first "-" parses as an integer
ScoreAge(user, t) ==
  IF user.birthdate = NoneStr \/ user.birthdate = <<>> THEN Unknown
  ELSE LET y == PyInt(SplitFirst(user.birthdate, "-"))
       IN IF y.ok THEN Known(CurrentYear(t) - y.v) ELSE Unknown

SexFacet(user) == IF user.sex \in {"m", "f"} THEN user.sex ELSE "any"

Score_AnyAlwaysCounts(rr, user, t) ==
  LET age == ScoreAge(user, t)
  IN (IF rr.sex = SexFacet(user) THEN 2 ELSE 0)
     + (IF rr.sex = "any" THEN 1 ELSE 0)
     + (IF age.known /\ rr.age_min <= age.v /\ age.v <= rr.age_max THEN 2 ELSE 0)

Score(rr, user, t) ==
  LET age == ScoreAge(user, t)
  IN (IF rr.sex = SexFacet(user) THEN 2 ELSE IF rr.sex = "any" THEN 1 ELSE 0)
     + (IF age.known /\ rr.age_min <= age.v /\ age.v <= rr.age_max THEN 2 ELSE 0)

\* q.all(): the biomarker's rows in the order the database returns them
RangesFor(table, biomarker_id) == SelectSeq(table, LAMBDA rr : rr.biomarker_id = biomarker_id)

SelectReference_LastMax(table, biomarker_id, user, t) ==
  LET cand == RangesFor(table, biomarker_id)
  IN IF cand = <<>> THEN None
     ELSE cand[CHOOSE i \in DOMAIN cand :
                 /\ \A j \in DOMAIN cand : Score(cand[j], user, t) <= Score(cand[i], user, t)
                 /\ \A j \in DOMAIN cand : j > i => Score(cand[j], user, t) < Score(cand[i], user, t)]

\* max(ranges, key=score): the first row of maximal score
SelectReference(table, biomarker_id, user, t) ==
  LET cand == RangesFor(table, biomarker_id)
  IN IF cand = <<>> THEN None
     ELSE cand[CHOOSE i \in DOMAIN cand :
                 /\ \A j \in DOMAIN cand : Score(cand[j], user, t) <= Score(cand[i], user, t)
                 /\ \A j \in DOMAIN cand : j < i => Score(cand[j], user, t) < Score(cand[i], user, t)]

(***************************************************************************)
(* Biomarker resolution: normalize.py resolve_biomarker and                *)
(* create_biomarker_from_name over the biomarkers and biomarker_synonyms   *)
(* tables.  A Biomarker id of 0 stands for Python's None.                  *)
(***************************************************************************)
CodeMaxLen == 20

\* mapped attributes of the ORM classes; the declarative constructor raises
\* TypeError for a keyword that is not an attribute of the class
BiomarkerAttrs ==
  {"id", "code", "name_ru", "name_en", "category", "unit_std", "risk_direction",
   "is_whoop_supported", "is_genetic"}

SynonymAttrs == {"id", "biomarker_id", "language", "text", "biomarker"}

\* keywords create_biomarker_from_name passes to Biomarker(...) and BiomarkerSynonym(...)
NewBiomarkerKwargs == {"code", "name_en", "name_ru", "category", "unit", "description"}

NewSynonymKwargs == {"biomarker_id", "text", "lang"}

ConstructorAccepts_AnyKeyword(attrs, kwargs) == TRUE

ConstructorAccepts(attrs, kwargs) == kwargs \subseteq attrs

BiomarkerById(bms, id) ==
  IF \E i \in DOMAIN bms : bms[i].id = id
  THEN bms[CHOOSE i \in DOMAIN bms : bms[i].id = id].id
  ELSE 0

CodeTaken(bms, code) == \E i \in DOMAIN bms : bms[i].code = code

CodeMatches(bms, original_name) == {i \in DOMAIN bms : bms[i].code = PyUpper(original_name)}

NameLower(original_name) == PyStrip(PyLower(original_name))

SynonymMatches(syns, original_name) ==
  {i \in DOMAIN syns : SqlLower(syns[i].text) = NameLower(original_name)}

SubstringMatches(bms, original_name) ==
  {i \in DOMAIN bms :
     \/ IsSubstring(NameLower(original_name), PyLower(bms[i].name_en))
     \/ IsSubstring(NameLower(original_name), PyLower(bms[i].name_ru))
     \/ IsSubstring(PyLower(bms[i].name_en), NameLower(original_name))
     \/ IsSubstring(PyLower(bms[i].name_ru), NameLower(original_name))}

GeneratedCode(name) == Prefix(PyReplace(PyReplace(PyUpper(name), " ", "_"), "-", "_"), CodeMaxLen)

Suffixed(code, suffix) == code \o <<"_">> \o PyStr(suffix)

\* the suffix loop: the first suffix >= 1 whose code is free
FreeSuffix(bms, code) ==
  CHOOSE k \in 1..(Len(bms) + 1) :
    /\ ~CodeTaken(bms, Suffixed(code, k))
    /\ \A j \in 1..(k - 1) : CodeTaken(bms, Suffixed(code, j))

UniqueCode(bms, name) ==
  LET code == GeneratedCode(name)
  IN IF CodeTaken(bms, code) THEN Suffixed(code, FreeSuffix(bms, code)) ELSE code

NextId(rows) == IF rows = <<>> THEN 1 ELSE 1 + (CHOOSE m \in {rows[i].id : i \in DOMAIN rows} :
                                                 \A i \in DOMAIN rows : rows[i].id <= m)

\* outcome of create_biomarker_from_name: what is committed, what is returned
\* and the exception that escapes, if any
CreateBiomarkerFromName(bms, syns, name) ==
  IF ~ConstructorAccepts(BiomarkerAttrs, NewBiomarkerKwargs)
  THEN [raised |-> "TypeError", biomarkers |-> bms, synonyms |-> syns, result |-> 0]
  ELSE LET new_biomarker == [id |-> NextId(bms), code |-> UniqueCode(bms, name),
                             name_en |-> name, name_ru |-> name,
                             category |-> "other", unit_std |-> ""]
           committed == Append(bms, new_biomarker)
       IN IF ~ConstructorAccepts(SynonymAttrs, NewSynonymKwargs)
          THEN [raised |-> "TypeError", biomarkers |-> committed, synonyms |-> syns, result |-> 0]
          ELSE [raised |-> "none", biomarkers |-> committed,
                synonyms |-> Append(syns, [id |-> NextId(syns),
                                           biomarker_id |-> new_biomarker.id, text |-> name]),
                result |-> new_biomarker.id]

Returned(bms, syns, id) == [raised |-> "none", biomarkers |-> bms, synonyms |-> syns, result |-> id]

ResolveStep_IgnoreAutoCreate(bms, syns, original_name, auto_create) ==
  IF CodeMatches(bms, original_name) # {} THEN "code"
  ELSE IF SynonymMatches(syns, original_name) # {} THEN "synonym"
  ELSE IF SubstringMatches(bms, original_name) # {} THEN "substring"
  ELSE "create"

\* the step of resolve_biomarker that ends the call
ResolveStep(bms, syns, original_name, auto_create) ==
  IF CodeMatches(bms, original_name) # {} THEN "code"
  ELSE IF SynonymMatches(syns, original_name) # {} THEN "synonym"
  ELSE IF SubstringMatches(bms, original_name) # {} THEN "substring"
  ELSE IF auto_create THEN "create"
  ELSE "none"

ResolveBiomarker(bms, syns, original_name, auto_create) ==
  LET step == ResolveStep(bms, syns, original_name, auto_create)
  IN IF step = "code"
     THEN Returned(bms, syns, bms[First(CodeMatches(bms, original_name))].id)
     ELSE IF step = "synonym"
     THEN Returned(bms, syns,
                   BiomarkerById(bms, syns[First(SynonymMatches(syns, original_name))].biomarker_id))
     ELSE IF step = "substring"
     THEN Returned(bms, syns, bms[First(SubstringMatches(bms, original_name))].id)
     ELSE IF step = "create" THEN CreateBiomarkerFromName(bms, syns, original_name)
     ELSE Returned(bms, syns, 0)

(***************************************************************************)
(* Composite biomarkers: composites.py.  A composite outcome is            *)
(* [raised, value]; value is None when the composite is not computed.      *)
(***************************************************************************)
LookbackDays == 30
AnthropometricLookbackDays == 365
RecentDays == 1

CHOL == <<"C", "H", "O", "L">>
HDL == <<"H", "D", "L">>
GLU == <<"G", "L", "U">>
CREAT == <<"C", "R", "E", "A", "T">>
WEIGHT == <<"W", "E", "I", "G", "H", "T">>
HEIGHT == <<"H", "E", "I", "G", "H", "T">>
NON_HDL == <<"N", "O", "N", "_", "H", "D", "L">>
AI == <<"A", "I">>
HOMA_IR == <<"H", "O", "M", "A", "_", "I", "R">>
EGFR == <<"E", "G", "F", "R">>
BMI == <<"B", "M", "I">>

Computed(v) == [raised |-> "none", value |-> v]
Raises(e) == [raised |-> e, value |-> None]

\* id of the Biomarker with this code, 0 if there is none
BiomarkerIdByCode(bms, code) ==
  IF CodeTaken(bms, code) THEN bms[CHOOSE i \in DOMAIN bms : bms[i].code = code].id ELSE 0

\* the person's rows of one biomarker whose sample_datetime text is >= the text of the cutoff
RowsSince_AnyPerson(ms, user_id, biomarker_id, cutoff) ==
  {i \in DOMAIN ms : /\ ms[i].biomarker_id = biomarker_id
                     /\ StrGe(ms[i].sample_datetime, IsoFormat(cutoff))}

RowsSince(ms, user_id, biomarker_id, cutoff) ==
  LET cutoff_text == IsoFormat(cutoff)
  IN {i \in DOMAIN ms : /\ ms[i].user_id = user_id
                        /\ ms[i].biomarker_id = biomarker_id
                        /\ StrGe(ms[i].sample_datetime, cutoff_text)}

\* order_by(sample_datetime.desc()).first(): a row of greatest text, the
\* earliest stored among equal texts
LatestRow(ms, rows) ==
  CHOOSE i \in rows :
    /\ \A j \in rows : StrGe(ms[i].sample_datetime, ms[j].sample_datetime)
    /\ \A j \in rows : ms[j].sample_datetime = ms[i].sample_datetime => i <= j

GetLatestValue(bms, ms, t, user_id, biomarker_code, within_days) ==
  LET bm == BiomarkerIdByCode(bms, biomarker_code)
      rows == RowsSince(ms, user_id, bm, MinusDays(t, within_days))
  IN IF bm = 0 \/ rows = {} THEN None ELSE ms[LatestRow(ms, rows)].value_std

CalculateNonHdl(bms, ms, t, user_id) ==
  LET chol == GetLatestValue(bms, ms, t, user_id, CHOL, LookbackDays)
      hdl == GetLatestValue(bms, ms, t, user_id, HDL, LookbackDays)
  IN IF chol # None /\ hdl # None THEN Computed(RSub(chol, hdl)) ELSE Computed(None)

CalculateAtherogenicIndex_NoSignTest(bms, ms, t, user_id) ==
  LET chol == GetLatestValue(bms, ms, t, user_id, CHOL, LookbackDays)
      hdl == GetLatestValue(bms, ms, t, user_id, HDL, LookbackDays)
  IN IF chol # None /\ hdl # None
     THEN (IF hdl = R(0) THEN Raises("ZeroDivisionError") ELSE Computed(RDiv(chol, hdl)))
     ELSE Computed(None)

CalculateAtherogenicIndex(bms, ms, t, user_id) ==
  LET chol == GetLatestValue(bms, ms, t, user_id, CHOL, LookbackDays)
      hdl == GetLatestValue(bms, ms, t, user_id, HDL, LookbackDays)
  IN IF chol # None /\ hdl # None /\ RLt(R(0), hdl) THEN Computed(RDiv(chol, hdl))
     ELSE Computed(None)

CalculateHomaIr(bms, ms, t, user_id) == Computed(None)

\* round(x, 1) of a rational, ties to even
Round1(x) ==
  LET q == (10 * x.n) \div x.d
      twice == 2 * (10 * x.n) - 2 * q * x.d
  IN IF twice < x.d THEN Rat(q, 10)
     ELSE IF twice > x.d THEN Rat(q + 1, 10)
     ELSE IF q % 2 = 0 THEN Rat(q, 10) ELSE Rat(q + 1, 10)

\* The CKD-EPI 2021 product is kept as the term of its inputs and of the
\* constants chosen by sex.  A zero creatinine raises (0.0 to a negative
\* power); a negative one makes the power complex, which round() rejects.
CalculateEgfr(bms, ms, t, user) ==
  LET creat == GetLatestValue(bms, ms, t, user.id, CREAT, LookbackDays)
      age == ScoreAge(user, t)
      female == user.sex = "f"
  IN IF creat = None THEN Computed(None)
     ELSE IF ~age.known THEN Computed(None)
     ELSE IF creat = R(0) THEN Raises("ZeroDivisionError")
     ELSE IF RLt(creat, R(0)) THEN Raises("TypeError")
     ELSE Computed([egfr |-> "ckd_epi_2021",
                    creat_mg_dl |-> RDiv(creat, Rat(884, 10)),
                    age |-> age.v,
                    kappa |-> IF female THEN Rat(7, 10) ELSE Rat(9, 10),
                    alpha |-> IF female THEN Rat(-241, 1000) ELSE Rat(-302, 1000),
                    sex_factor |-> IF female THEN Rat(1012, 1000) ELSE R(1)])

CalculateBmi(bms, ms, t, user_id) ==
  LET weight == GetLatestValue(bms, ms, t, user_id, WEIGHT, AnthropometricLookbackDays)
      height == GetLatestValue(bms, ms, t, user_id, HEIGHT, AnthropometricLookbackDays)
  IN IF weight # None /\ height # None /\ RLt(R(0), height)
     THEN LET height_m == RDiv(height, R(100))
          IN Computed(Round1(RDiv(weight, RMul(height_m, height_m))))
     ELSE Computed(None)

\* composite_map in its iteration order: key, biomarker code
CompositeCodes == <<NON_HDL, AI, HOMA_IR, EGFR, BMI>>

\* calculate_all_composites, in the order of composite_map
CalculateAllComposites(bms, ms, t, user) ==
  <<CalculateNonHdl(bms, ms, t, user.id),
    CalculateAtherogenicIndex(bms, ms, t, user.id),
    CalculateHomaIr(bms, ms, t, user.id),
    CalculateEgfr(bms, ms, t, user),
    CalculateBmi(bms, ms, t, user.id)>>

\* one pass of the loop body that leaves a row it finds as it is
SaveComposite_KeepsExisting(bms, ms, t, user_id, code, value) ==
  LET bm == BiomarkerIdByCode(bms, code)
      existing == RowsSince(ms, user_id, bm, MinusDays(t, RecentDays))
  IN IF value = None \/ bm = 0 \/ existing # {} THEN ms
     ELSE Append(ms, [id |-> NextId(ms), user_id |-> user_id, biomarker_id |-> bm,
                      value_std |-> value, source_type |-> "calculated",
                      sample_datetime |-> IsoFormat(t), created_at |-> t])

\* one pass of the loop body of auto_save_composites for composite k
SaveComposite(bms, ms, t, user_id, code, value) ==
  LET bm == BiomarkerIdByCode(bms, code)
      existing == RowsSince(ms, user_id, bm, MinusDays(t, RecentDays))
  IN IF value = None \/ bm = 0 THEN ms
     ELSE IF existing # {}
     THEN [ms EXCEPT ![First(existing)].value_std = value,
                     ![First(existing)].sample_datetime = IsoFormat(t)]
     ELSE Append(ms, [id |-> NextId(ms), user_id |-> user_id, biomarker_id |-> bm,
                      value_std |-> value, source_type |-> "calculated",
                      sample_datetime |-> IsoFormat(t), created_at |-> t])

RECURSIVE SaveComposites(_, _, _, _, _, _)
SaveComposites(bms, ms, t, user_id, composites, k) ==
  IF k > Len(CompositeCodes) THEN ms
  ELSE SaveComposites(bms,
                      SaveComposite(bms, ms, t, user_id, CompositeCodes[k], composites[k].value),
                      t, user_id, composites, k + 1)

FirstRaised(composites) ==
  IF \E k \in DOMAIN composites : composites[k].raised # "none"
  THEN composites[First({k \in DOMAIN composites : composites[k].raised # "none"})].raised
  ELSE "none"

\* outcome of auto_save_composites: the measurements table after it and the
\* exception that escapes, if any (the composites are all computed first)
AutoSaveComposites(bms, ms, t, user) ==
  LET composites == CalculateAllComposites(bms, ms, t, user)
  IN IF FirstRaised(composites) # "none"
     THEN [raised |-> FirstRaised(composites), measurements |-> ms]
     ELSE [raised |-> "none",
           measurements |-> SaveComposites(bms, ms, t, user.id, composites, 1)]

(***************************************************************************)
(* Biological age: domain/bioage.py.  An outcome is [raised, value]: value *)
(* is the dict the function returns.  User.date_of_birth is a Date column: *)
(* None or [kind |-> "date", day].  The logarithms and exponentials of the *)
(* PhenoAge formula are kept as the term of their inputs.                  *)
(***************************************************************************)
BioCode ==
  [ALB |-> <<"A", "L", "B">>, CRP |-> <<"C", "R", "P">>,
   LYMPH_PCT |-> <<"L", "Y", "M", "P", "H", "_", "P", "C", "T">>,
   MCV |-> <<"M", "C", "V">>, RDW |-> <<"R", "D", "W">>, ALP |-> <<"A", "L", "P">>,
   WBC |-> <<"W", "B", "C">>, TC |-> <<"T", "C">>, LDL |-> <<"L", "D", "L">>,
   TG |-> <<"T", "G">>, HBA1C |-> <<"H", "B", "A", "1", "C">>, ALT |-> <<"A", "L", "T">>,
   AST |-> <<"A", "S", "T">>, HGB |-> <<"H", "G", "B">>]

\* order_by(Measurement.created_at.desc()).first(): a row created last, the
\* earliest stored among rows created at the same instant
GetLatestBiomarkerValue(bms, ms, user, biomarker_code) ==
  LET bm == BiomarkerIdByCode(bms, biomarker_code)
      rows == {i \in DOMAIN ms : ms[i].user_id = user.id /\ ms[i].biomarker_id = bm}
      at(i) == 24 * ms[i].created_at.day + ms[i].created_at.hour
  IN IF bm = 0 \/ rows = {} THEN None
     ELSE ms[First({i \in rows : \A j \in rows : at(j) <= at(i)})].value_std

\* what the Date column User.date_of_birth holds: None or a datetime.date
BirthDate1994 == [kind |-> "date", day |-> 0 - 10957]

DatesOfBirth == {None, BirthDate1994}

\* (datetime.now() - user.date_of_birth).days / 365.25: datetime.__sub__
\* accepts a datetime or a timedelta; for a date it raises TypeError
ChronologicalAge(t, date_of_birth) ==
  IF date_of_birth.kind = "datetime"
  THEN Computed(Rat(100 * (t.day - date_of_birth.day), 36525))
  ELSE Raises("TypeError")

\* the nine PhenoAge inputs in the order they are read: code, name in `missing`
PhenoInputs ==
  <<<<BioCode.ALB, "Albumin">>, <<CREAT, "Creatinine">>, <<GLU, "Glucose">>,
    <<BioCode.CRP, "CRP">>, <<BioCode.LYMPH_PCT, "Lymphocyte %">>, <<BioCode.MCV, "MCV">>,
    <<BioCode.RDW, "RDW">>, <<BioCode.ALP, "ALP">>, <<BioCode.WBC, "WBC">>>>

CalculatePhenoage(bms, ms, t, user) ==
  IF user.date_of_birth = None THEN Computed([error |-> "Date of birth required"])
  ELSE LET age == ChronologicalAge(t, user.date_of_birth)
           v == [k \in DOMAIN PhenoInputs |-> GetLatestBiomarkerValue(bms, ms, user, PhenoInputs[k][1])]
           missing == MapSeq(LAMBDA k : PhenoInputs[k][2],
                             SelectSeq([k \in DOMAIN PhenoInputs |-> k], LAMBDA k : v[k] = None))
       IN IF age.raised # "none" THEN Raises(age.raised)
          ELSE IF missing # <<>>
          THEN Computed([error |-> "Missing required biomarkers", missing |-> missing,
                         phenoage |-> None])
          ELSE IF RLe(v[4], R(0)) THEN Raises("ValueError")
          ELSE Computed([phenoage |-> [levine_2018 |-> v, age |-> age.value],
                         chronological_age |-> age.value])

\* the penalty tables of calculate_simple_bioage, in the order they are applied
SimplePenalty(code, x) ==
  LET lt(a, b) == RLt(a, b)
      d(n) == Rat(n, 10)
  IN IF code = BioCode.TC THEN (IF lt(x, d(52)) THEN 0 ELSE IF lt(x, d(62)) THEN 5 ELSE 10)
     ELSE IF code = HDL THEN (IF lt(d(15), x) THEN 0 ELSE IF lt(d(10), x) THEN 5 ELSE 10)
     ELSE IF code = BioCode.LDL THEN (IF lt(x, d(26)) THEN 0 ELSE IF lt(x, d(41)) THEN 5 ELSE 10)
     ELSE IF code = BioCode.TG THEN (IF lt(x, d(17)) THEN 0 ELSE IF lt(x, d(23)) THEN 5 ELSE 10)
     ELSE IF code = GLU
     THEN (IF RLe(d(40), x) /\ RLe(x, d(56)) THEN 0 ELSE IF lt(x, d(70)) THEN 7 ELSE 15)
     ELSE IF code = BioCode.HBA1C THEN (IF lt(x, d(57)) THEN 0 ELSE IF lt(x, d(65)) THEN 7 ELSE 15)
     ELSE IF code = BioCode.CRP THEN (IF lt(x, R(1)) THEN 0 ELSE IF lt(x, R(3)) THEN 5 ELSE 10)
     ELSE IF code = BioCode.ALT THEN (IF lt(x, R(30)) THEN 0 ELSE IF lt(x, R(40)) THEN 3 ELSE 8)
     ELSE IF code = EGFR THEN (IF lt(R(90), x) THEN 0 ELSE IF lt(R(60), x) THEN 5 ELSE 12)
     ELSE (IF RLe(R(120), x) /\ RLe(x, R(170)) THEN 0 ELSE 5)

\* the biomarkers that calculate_simple_bioage scores, in order
SimpleScored ==
  <<BioCode.TC, HDL, BioCode.LDL, BioCode.TG, GLU, BioCode.HBA1C, BioCode.CRP, BioCode.ALT,
    EGFR, BioCode.HGB>>

RECURSIVE SumSeq(_)
SumSeq(q) == IF q = <<>> THEN 0 ELSE Head(q) + SumSeq(Tail(q))

GetPhenoageInterpretation_InclusiveUpper(age_delta) ==
  IF RLe(age_delta, R(-5)) THEN "Excellent"
  ELSE IF RLe(age_delta, R(-2)) THEN "Good"
  ELSE IF RLe(age_delta, R(2)) THEN "Average"
  ELSE IF RLe(age_delta, R(5)) THEN "Fair"
  ELSE "Poor"

\* the interpretation texts are kept by their first word
GetPhenoageInterpretation(age_delta) ==
  IF RLt(age_delta, R(-5)) THEN "Excellent"
  ELSE IF RLt(age_delta, R(-2)) THEN "Good"
  ELSE IF RLt(age_delta, R(2)) THEN "Average"
  ELSE IF RLt(age_delta, R(5)) THEN "Fair"
  ELSE "Poor"

GetBioageInterpretation(age_delta) ==
  IF RLt(age_delta, R(-3)) THEN "Excellent"
  ELSE IF RLt(age_delta, R(-1)) THEN "Good"
  ELSE IF RLt(age_delta, R(1)) THEN "Average"
  ELSE IF RLt(age_delta, R(3)) THEN "Fair"
  ELSE "Poor"

\* `if biomarkers[code]:` holds for a value that is neither None nor 0
CalculateSimpleBioage(bms, ms, t, user) ==
  IF user.date_of_birth = None THEN Computed([error |-> "Date of birth required"])
  ELSE LET age == ChronologicalAge(t, user.date_of_birth)
           v == [k \in DOMAIN SimpleScored |-> GetLatestBiomarkerValue(bms, ms, user, SimpleScored[k])]
           used == SelectSeq([k \in DOMAIN SimpleScored |-> k],
                             LAMBDA k : v[k] # None /\ v[k] # R(0))
           score == SumSeq(MapSeq(LAMBDA k : SimplePenalty(SimpleScored[k], v[k]), used))
           count == Len(used)
       IN IF age.raised # "none" THEN Raises(age.raised)
          ELSE IF count = 0 THEN Computed([error |-> "No biomarkers available"])
          ELSE LET avg_score == Rat(score, count)
                   age_delta == RSub(avg_score, R(5))
               IN Computed([bioage |-> Round1(RAdd(age.value, age_delta)),
                            chronological_age |-> Round1(age.value),
                            age_delta |-> Round1(age_delta),
                            aging_score |-> Round1(avg_score),
                            biomarkers_used |-> count,
                            interpretation |-> GetBioageInterpretation(age_delta)])

HasError(result) == "error" \in DOMAIN result

\* results as a set of [key, value] entries; the mean of the two deltas is
\* kept as the pair it is taken over, the PhenoAge delta being a term
CalculateAllBioages(bms, ms, t, user) ==
  LET phenoage == CalculatePhenoage(bms, ms, t, user)
      simple == CalculateSimpleBioage(bms, ms, t, user)
  IN IF phenoage.raised # "none" THEN Raises(phenoage.raised)
     ELSE IF simple.raised # "none" THEN Raises(simple.raised)
     ELSE LET entries ==
                (IF HasError(phenoage.value) THEN {}
                 ELSE {[key |-> "phenoage", value |-> phenoage.value]})
                \cup (IF HasError(simple.value) THEN {}
                      ELSE {[key |-> "simple_bioage", value |-> simple.value]})
          IN IF Cardinality(entries) > 1
             THEN Computed(entries \cup
                             {[key |-> "average",
                               value |-> [mean_of_age_delta |-> <<phenoage.value.phenoage,
                                                                  simple.value.age_delta>>]]})
             ELSE Computed(entries)

(***************************************************************************)
(* Handlers that store measurements: api/measurements.py add_measurement   *)
(* and api/uploads.py approve.                                             *)
(***************************************************************************)
BiomarkerRow(bms, id) == bms[CHOOSE i \in DOMAIN bms : bms[i].id = id]

HasBiomarker(bms, id) == \E i \in DOMAIN bms : bms[i].id = id

NonNumeric == [text |-> "n/a"]

\* what the loop of approve adds to the session: [raised, rows]
RECURSIVE ApproveItems(_, _, _, _, _, _)
ApproveItems(bms, convs, user_id, source_type, items, rows) ==
  IF items = <<>> THEN [raised |-> "none", rows |-> rows]
  ELSE LET it == Head(items)
       IN IF ~it.candidate \/ ~HasBiomarker(bms, it.biomarker_id)
          THEN ApproveItems(bms, convs, user_id, source_type, Tail(items), rows)
          ELSE IF it.value = NonNumeric
          THEN [raised |-> "ValueError", rows |-> rows]
          ELSE LET bm == BiomarkerRow(bms, it.biomarker_id)
                   unit == IF it.unit = "absent" THEN bm.unit_std ELSE it.unit
               IN ApproveItems(bms, convs, user_id, source_type, Tail(items),
                     Append(rows, [user_id |-> user_id, biomarker_id |-> bm.id,
                                   value_std |-> ConvertUnit(convs, it.value, unit, bm.unit_std),
                                   source_type |-> source_type,
                                   sample_datetime |-> it.sample_datetime]))

\* db.add + commit: rows get the next ids and the creation instant
RECURSIVE Insert(_, _, _)
Insert(ms, rows, t) ==
  IF rows = <<>> THEN ms
  ELSE Insert(Append(ms, [id |-> NextId(ms), user_id |-> Head(rows).user_id,
                          biomarker_id |-> Head(rows).biomarker_id,
                          value_std |-> Head(rows).value_std,
                          source_type |-> Head(rows).source_type,
                          sample_datetime |-> Head(rows).sample_datetime,
                          created_at |-> t]),
              Tail(rows), t)

UserIds == {1, 2}

\* values of approved candidates
MValues == {R(0), R(5)}

\* readings a client enters by hand: a value with the unit it is in
Readings(unit) == {<<R(36), unit>>}

\* sample_datetime texts a client sends: an ISO date 40 days before the
\* request and a date 400 days before it in the '%d.%m.%Y' form the parsers
\* produce
SampleTexts(t) == {IsoDate(t.day - 40), DmyDate(t.day - 400)}

\* rows stored by a client, as opposed to rows inserted by auto_save_composites
RawCount(ms) == Cardinality({i \in DOMAIN ms : ms[i].source_type # "calculated"})

AddMeasurement(u, biomarker_id, value, unit, sample_datetime) ==
  /\ RawCount(measurements) < MaxMeasurements
  /\ IF ~HasBiomarker(biomarkers, biomarker_id)
     THEN /\ ret' = [op |-> "add_measurement", user_id |-> u, raised |-> "HTTPException"]
          /\ UNCHANGED measurements
     ELSE LET bm == BiomarkerRow(biomarkers, biomarker_id)
          IN /\ measurements' =
                  Insert(measurements,
                         <<[user_id |-> u, biomarker_id |-> bm.id,
                            value_std |-> ConvertUnit(conversions, value, unit, bm.unit_std),
                            source_type |-> "manual",
                            sample_datetime |-> sample_datetime]>>, now)
             /\ ret' = [op |-> "add_measurement", user_id |-> u, raised |-> "none"]
  /\ UNCHANGED <<biomarkers, synonyms, conversions, ranges, users, now, ticks, sessions>>

Approve(u, own_upload, file_type, items) ==
  /\ RawCount(measurements) + Len(items) <= MaxMeasurements
  /\ IF ~own_upload
     THEN /\ ret' = [op |-> "approve", user_id |-> u, raised |-> "HTTPException"]
          /\ UNCHANGED measurements
     ELSE LET source_type == IF file_type \in {"csv", "xlsx", "xls"} THEN "lab_excel" ELSE "lab_pdf"
              loop == ApproveItems(biomarkers, conversions, u, source_type, items, <<>>)
              committed == Insert(measurements, loop.rows, now)
              saved == AutoSaveComposites(biomarkers, committed, now, users[u])
          IN IF loop.raised # "none"
             THEN /\ ret' = [op |-> "approve", user_id |-> u, raised |-> loop.raised]
                  /\ UNCHANGED measurements
             ELSE /\ measurements' = saved.measurements
                  /\ ret' = [op |-> "approve", user_id |-> u, raised |-> saved.raised]
  /\ UNCHANGED <<biomarkers, synonyms, conversions, ranges, users, now, ticks, sessions>>

\* the compute_all contract, read-only
CalculateAll(u) ==
  /\ ret' = [op |-> "calculate_all_composites", user_id |-> u, at |-> now,
             result |-> CalculateAllComposites(biomarkers, measurements, now, users[u])]
  /\ UNCHANGED <<biomarkers, synonyms, conversions, ranges, users, measurements, now, ticks, sessions>>

Tick(days) ==
  /\ ticks < MaxTicks
  /\ ticks' = ticks + 1
  /\ now' = [now EXCEPT !.day = @ + days]
  /\ UNCHANGED <<biomarkers, synonyms, conversions, ranges, users, measurements, ret, sessions>>

(***************************************************************************)
(* The ingestion pipeline: seeded reference data (seeds/load_all.py), two  *)
(* registered users, and the handlers above.                               *)
(***************************************************************************)
Bm(id, code, unit) ==
  [id |-> id, code |-> code, name_en |-> code, name_ru |-> code,
   category |-> "lab", unit_std |-> unit]

SeedCatalogs ==
  {<<Bm(1, CHOL, "mmol/L"), Bm(2, HDL, "mmol/L"), Bm(3, NON_HDL, "mmol/L")>>,
   <<Bm(1, WEIGHT, "kg"), Bm(2, HEIGHT, "cm"), Bm(3, BMI, "kg/m2")>>,
   <<Bm(1, CREAT, "umol/L"), Bm(2, EGFR, "mL/min")>>}

SeedConversions ==
  <<[from_unit |-> "mg/dL", to_unit |-> "mmol/L", factor |-> Rat(555, 10000), offset |-> R(0)],
    [from_unit |-> "mmol/L", to_unit |-> "mg/dL", factor |-> Rat(180182, 10000), offset |-> R(0)]>>

Birthdate1990 == <<"1", "9", "9", "0", "-", "0", "5", "-", "0", "1">>

SeedUsers ==
  [u \in UserIds |->
     IF u = 1 THEN [id |-> 1, sex |-> "f", birthdate |-> Birthdate1990,
                    date_of_birth |-> BirthDate1994]
     ELSE [id |-> 2, sex |-> "m", birthdate |-> NoneStr, date_of_birth |-> None]]

NoCall == [op |-> "none"]

\* items a client approves: well-formed ones dated in ISO form, one dated
\* today in the '%d.%m.%Y' form the parsers produce, one without a date, one
\* whose candidate is gone, one whose value is not a number
ItemsOf(bms, t) ==
  LET sampled == IsoFormat(t)
  IN
  {[candidate |-> TRUE, biomarker_id |-> b, value |-> v, unit |-> "absent",
    sample_datetime |-> sampled] : b \in {bms[i].id : i \in DOMAIN bms}, v \in MValues}
  \cup {[candidate |-> TRUE, biomarker_id |-> 1, value |-> R(5), unit |-> "absent",
         sample_datetime |-> s] : s \in {DmyDate(t.day), <<>>}}
  \cup {[candidate |-> FALSE, biomarker_id |-> 1, value |-> R(2), unit |-> "absent",
         sample_datetime |-> <<>>],
        [candidate |-> TRUE, biomarker_id |-> 1, value |-> NonNumeric, unit |-> "absent",
         sample_datetime |-> <<>>]}

Init ==
  /\ biomarkers \in SeedCatalogs
  /\ synonyms = <<>>
  /\ conversions = SeedConversions
  /\ ranges = <<>>
  /\ users = SeedUsers
  /\ measurements = <<>>
  /\ now = StartInstant
  /\ ticks = 0
  /\ sessions = <<>>
  /\ ret = NoCall

DoAddMeasurement ==
  \E u \in UserIds, b \in 1..(Len(biomarkers) + 1), s \in SampleTexts(now) :
    \E r \in Readings("mg/dL") : AddMeasurement(u, b, r[1], r[2], s)

\* the number of items one more approval may hold
Room(ms) ==
  IF MaxMeasurements - RawCount(ms) < MaxItems THEN MaxMeasurements - RawCount(ms) ELSE MaxItems

DoApprove ==
  \E u \in UserIds :
    \/ \E items \in SeqsUpTo(ItemsOf(biomarkers, now), Room(measurements)) :
         Approve(u, TRUE, "pdf", items)
    \/ Approve(u, FALSE, "pdf", <<>>)

DoCalculateAll == \E u \in UserIds : CalculateAll(u)

DoTick == \E d \in TickDays : Tick(d)

Next == DoAddMeasurement \/ DoApprove \/ DoCalculateAll \/ DoTick

Spec == Init /\ [][Next]_vars

TypeOK == ret.op \in {"none", "add_measurement", "approve", "calculate_all_composites"}

(***************************************************************************)
(* convert_unit applied to tables of conversion edges.                     *)
(***************************************************************************)
ConvEdges ==
  {[from_unit |-> f, to_unit |-> t, factor |-> k[1], offset |-> k[2]] :
     f \in Units, t \in Units, k \in {<<R(2), R(0)>>, <<Rat(555, 10000), R(32)>>}}

ConvValues == {R(-3), R(0), R(5)}

InitConvert ==
  /\ biomarkers = <<>>
  /\ synonyms = <<>>
  /\ conversions \in SeqsUpTo(ConvEdges, MaxConversions)
  /\ ranges = <<>>
  /\ users = SeedUsers
  /\ measurements = <<>>
  /\ now = StartInstant
  /\ ticks = 0
  /\ sessions = <<>>
  /\ ret = NoCall

DoConvertUnit ==
  /\ \E v \in ConvValues, f \in Units, t \in Units :
       ret' = [op |-> "convert_unit", value |-> v, from_unit |-> f, to_unit |-> t,
               result |-> ConvertUnit(conversions, v, f, t)]
  /\ UNCHANGED <<biomarkers, synonyms, conversions, ranges, users, measurements, now, ticks, sessions>>

SpecConvert == InitConvert /\ [][DoConvertUnit]_vars

(***************************************************************************)
(* status_against_ref applied to values and bounds on a grid of hundredths.*)
(***************************************************************************)
ClassifyValues == {Rat(k, 100) : k \in -100..1100}

ClassifyLows == {None, R(0), R(1), R(10), Rat(1, 2)}

ClassifyHighs == {None, R(0), R(1), R(2), R(10), Rat(7, 2)}

\* the arguments of the call are drawn first; the call then returns
InitClassify ==
  /\ biomarkers = <<>>
  /\ synonyms = <<>>
  /\ conversions = <<>>
  /\ ranges = <<>>
  /\ users = SeedUsers
  /\ measurements = <<>>
  /\ now = StartInstant
  /\ ticks = 0
  /\ sessions = <<>>
  /\ \E v \in ClassifyValues, low \in ClassifyLows, high \in ClassifyHighs :
       ret = [op |-> "status_against_ref", value |-> v, low |-> low, high |-> high,
              result |-> "pending"]

DoStatusAgainstRef ==
  /\ ret.op = "status_against_ref" /\ ret.result = "pending"
  /\ ret' = [ret EXCEPT !.result = StatusAgainstRef(ret.value, ret.low, ret.high)]
  /\ UNCHANGED <<biomarkers, synonyms, conversions, ranges, users, measurements, now, ticks, sessions>>

SpecClassify == InitClassify /\ [][DoStatusAgainstRef]_vars

(***************************************************************************)
(* select_reference applied to tables of reference ranges and to persons.  *)
(***************************************************************************)
RangeRows ==
  {[biomarker_id |-> 1, sex |-> sx, age_min |-> band[1], age_max |-> band[2],
    low |-> R(0), high |-> R(10)] : sx \in {"m", "f", "any"}, band \in {<<0, 40>>, <<41, 200>>}}
  \cup {[biomarker_id |-> 2, sex |-> "any", age_min |-> 0, age_max |-> 200,
         low |-> R(0), high |-> R(10)]}

\* rows get their ids in table order
WithIds(rows) ==
  [i \in DOMAIN rows |->
     [id |-> i, biomarker_id |-> rows[i].biomarker_id, sex |-> rows[i].sex,
      age_min |-> rows[i].age_min, age_max |-> rows[i].age_max,
      low |-> rows[i].low, high |-> rows[i].high]]

Birthdate1980 == <<"1", "9", "8", "0">>
BirthdateText == <<"a", "b", "-", "0", "5">>
BirthdateDmy == <<"0", "1", ".", "0", "5", ".", "1", "9", "9", "0">>

Birthdates == {NoneStr, <<>>, Birthdate1990, Birthdate1980, BirthdateText, BirthdateDmy}

Sexes == {"m", "f", "any", "x"}

InitReference ==
  /\ biomarkers = <<>>
  /\ synonyms = <<>>
  /\ conversions = <<>>
  /\ \E rows \in SeqsUpTo(RangeRows, MaxRanges) : ranges = WithIds(rows)
  /\ \E sx \in Sexes, bd \in Birthdates :
       users = [SeedUsers EXCEPT ![1] = [id |-> 1, sex |-> sx, birthdate |-> bd]]
  /\ measurements = <<>>
  /\ now = StartInstant
  /\ ticks = 0
  /\ sessions = <<>>
  /\ ret = NoCall

DoSelectReference ==
  /\ \E u \in UserIds, b \in {1, 2} :
       ret' = [op |-> "select_reference", user_id |-> u, biomarker_id |-> b,
               scores |-> [i \in DOMAIN RangesFor(ranges, b) |->
                             Score(RangesFor(ranges, b)[i], users[u], now)],
               result |-> SelectReference(ranges, b, users[u], now)]
  /\ UNCHANGED <<biomarkers, synonyms, conversions, ranges, users, measurements, now, ticks, sessions>>

SpecReference == InitReference /\ [][DoSelectReference]_vars

(***************************************************************************)
(* resolve_biomarker and create_biomarker_from_name applied to seeded      *)
(* catalogs.  Codes are unique (models/biomarker.py) and every synonym     *)
(* belongs to a seeded biomarker (seeds/load_all.py).                      *)
(***************************************************************************)
NameAlphabet == {"a", "A", " ", "-", "DE"}

\* twenty characters, the length create_biomarker_from_name truncates to
Twenty == [i \in 1..CodeMaxLen |-> "a"]

ObservedNames ==
  SeqsUpTo(NameAlphabet, MaxNameLen) \cup {Twenty \o <<"a">>, Twenty \o <<"A">>}

CatalogRows ==
  {[code |-> c, name_en |-> en, name_ru |-> ru, category |-> "lab", unit_std |-> "mmol/L"] :
     c \in {<<"A">>, <<"DE">>, <<"A", "_">>},
     en \in {<<"A", "b">>, <<"a">>},
     ru \in {<<"DE">>, <<"-">>}}

CatalogWithIds(rows) ==
  [i \in DOMAIN rows |->
     [id |-> i, code |-> rows[i].code, name_en |-> rows[i].name_en,
      name_ru |-> rows[i].name_ru, category |-> rows[i].category,
      unit_std |-> rows[i].unit_std]]

UniqueCodes(rows) == \A i, j \in DOMAIN rows : rows[i].code = rows[j].code => i = j

SynonymTexts == {<<"a">>, <<"A", "b">>, <<"DE">>}

SynonymTables(bms) ==
  {[i \in DOMAIN t |-> [id |-> i, biomarker_id |-> t[i][1], text |-> t[i][2]]] :
     t \in SeqsUpTo({bms[k].id : k \in DOMAIN bms} \X SynonymTexts, MaxSynonyms)}

InitResolve ==
  /\ \E rows \in SeqsUpTo(CatalogRows, MaxBiomarkers) :
       /\ UniqueCodes(rows)
       /\ biomarkers = CatalogWithIds(rows)
  /\ synonyms \in SynonymTables(biomarkers)
  /\ conversions = <<>>
  /\ ranges = <<>>
  /\ users = SeedUsers
  /\ measurements = <<>>
  /\ now = StartInstant
  /\ ticks = 0
  /\ sessions = <<>>
  /\ ret = NoCall

DoResolveBiomarker ==
  /\ ret = NoCall
  /\ \E name \in ObservedNames, auto_create \in BOOLEAN :
       LET out == ResolveBiomarker(biomarkers, synonyms, name, auto_create)
       IN /\ biomarkers' = out.biomarkers
          /\ synonyms' = out.synonyms
          /\ ret' = [op |-> "resolve_biomarker", original_name |-> name,
                     auto_create |-> auto_create,
                     step |-> ResolveStep(biomarkers, synonyms, name, auto_create),
                     raised |-> out.raised, result |-> out.result]
  /\ UNCHANGED <<conversions, ranges, users, measurements, now, ticks, sessions>>

DoCreateBiomarkerFromName ==
  /\ ret = NoCall
  /\ \E name \in ObservedNames :
       LET out == CreateBiomarkerFromName(biomarkers, synonyms, name)
       IN /\ biomarkers' = out.biomarkers
          /\ synonyms' = out.synonyms
          /\ ret' = [op |-> "create_biomarker_from_name", name |-> name,
                     raised |-> out.raised, result |-> out.result]
  /\ UNCHANGED <<conversions, ranges, users, measurements, now, ticks, sessions>>

NextResolve == DoResolveBiomarker \/ DoCreateBiomarkerFromName

SpecResolve == InitResolve /\ [][NextResolve]_vars

(***************************************************************************)
(* Biological age calls over drawn person states: catalog, stored rows of  *)
(* two persons, date_of_birth as the Date column returns it.               *)
(***************************************************************************)
MaxAbsent == 2

BioageCodes ==
  [k \in DOMAIN PhenoInputs |-> PhenoInputs[k][1]]
    \o <<BioCode.TC, HDL, BioCode.LDL, BioCode.TG, BioCode.HBA1C, BioCode.ALT, EGFR,
         BioCode.HGB>>

BioageCatalog == [k \in DOMAIN BioageCodes |-> Bm(k, BioageCodes[k], "u")]

BioRow(id, user_id, biomarker_id, value, created_at) ==
  [id |-> id, user_id |-> user_id, biomarker_id |-> biomarker_id, value_std |-> value,
   source_type |-> "manual", sample_datetime |-> IsoFormat(created_at), created_at |-> created_at]

\* person 1: an older albumin row stored after the newer one, the PhenoAge
\* inputs that are not absent, optional TC and HGB rows; person 2: a full panel
BioageTables ==
  LET t == StartInstant
      earlier == [day |-> t.day - 1, hour |-> t.hour]
      present(absent) == SelectSeq([k \in DOMAIN PhenoInputs |-> k], LAMBDA k : k \notin absent)
      own(absent, crp, tc, hgb) ==
        [k \in DOMAIN present(absent) |->
           [user_id |-> 1, biomarker_id |-> present(absent)[k],
            value |-> IF present(absent)[k] = 4 THEN crp ELSE R(5), at |-> t]]
          \o (IF 1 \in absent THEN <<>>
              ELSE <<[user_id |-> 1, biomarker_id |-> 1, value |-> R(1), at |-> earlier]>>)
          \o (IF tc = None THEN <<>>
              ELSE <<[user_id |-> 1, biomarker_id |-> 10, value |-> tc, at |-> t]>>)
          \o (IF hgb = None THEN <<>>
              ELSE <<[user_id |-> 1, biomarker_id |-> 17, value |-> hgb, at |-> t]>>)
      others == [k \in 1..10 |-> [user_id |-> 2, biomarker_id |-> k, value |-> R(9), at |-> t]]
      table(q) == [i \in DOMAIN q |-> BioRow(i, q[i].user_id, q[i].biomarker_id, q[i].value, q[i].at)]
  IN {table(IF other THEN others \o own(absent, crp, tc, hgb) ELSE own(absent, crp, tc, hgb)) :
        absent \in {a \in SUBSET DOMAIN PhenoInputs : Cardinality(a) <= MaxAbsent},
        crp \in {R(0), R(2)}, tc \in {None, R(0), R(7)}, hgb \in {None, R(130)},
        other \in BOOLEAN}

InitBioage ==
  /\ biomarkers = BioageCatalog
  /\ synonyms = <<>>
  /\ conversions = <<>>
  /\ ranges = <<>>
  /\ \E d1 \in DatesOfBirth, d2 \in DatesOfBirth :
       users = [u \in UserIds |->
                  [id |-> u, sex |-> "f", birthdate |-> NoneStr,
                   date_of_birth |-> IF u = 1 THEN d1 ELSE d2]]
  /\ measurements \in BioageTables
  /\ now = StartInstant
  /\ ticks = 0
  /\ sessions = <<>>
  /\ ret = NoCall

BioageCall(op, outcome, u) ==
  /\ ret = NoCall
  /\ ret' = [op |-> op, user_id |-> u, raised |-> outcome.raised, result |-> outcome.value]
  /\ UNCHANGED <<biomarkers, synonyms, conversions, ranges, users, measurements, now, ticks, sessions>>

DoPhenoage ==
  \E u \in UserIds :
    BioageCall("phenoage", CalculatePhenoage(biomarkers, measurements, now, users[u]), u)

DoSimpleBioage ==
  \E u \in UserIds :
    BioageCall("simple_bioage", CalculateSimpleBioage(biomarkers, measurements, now, users[u]), u)

DoAllBioages ==
  \E u \in UserIds :
    BioageCall("all_bioages", CalculateAllBioages(biomarkers, measurements, now, users[u]), u)

NextBioage == DoPhenoage \/ DoSimpleBioage \/ DoAllBioages

SpecBioage == InitBioage /\ [][NextBioage]_vars

(***************************************************************************)
(* Concurrent approvals: api/uploads.py approve runs in a worker thread    *)
(* per request, each with its own database session (core/security.py       *)
(* get_db).  A request commits its raw rows, then auto_save_composites     *)
(* reads (the composites and, per composite, the recent row) and writes at *)
(* its db.commit().  The reads of one request are taken together; other    *)
(* requests run between a request's reads and its commit.                  *)
(***************************************************************************)
MaxWorkers == 2

Workers == 1..MaxWorkers

\* what the loop of auto_save_composites holds before its commit: per
\* composite the value, the biomarker and the id of the recent row it found
PersistReads(bms, ms, t, user) ==
  LET composites == CalculateAllComposites(bms, ms, t, user)
  IN [k \in DOMAIN CompositeCodes |->
        LET bm == BiomarkerIdByCode(bms, CompositeCodes[k])
            existing == RowsSince(ms, user.id, bm, MinusDays(t, RecentDays))
        IN [value |-> composites[k].value, bm |-> bm,
            existing |-> IF existing = {} THEN 0 ELSE ms[First(existing)].id]]

\* the commit: an UPDATE by primary key of each row found, an INSERT of each
\* Measurement added
RECURSIVE PersistWrites(_, _, _, _, _)
PersistWrites(ms, reads, t, user_id, k) ==
  IF k > Len(reads) THEN ms
  ELSE LET r == reads[k]
           row == CHOOSE i \in DOMAIN ms : ms[i].id = r.existing
           written ==
             IF r.value = None \/ r.bm = 0 THEN ms
             ELSE IF r.existing # 0
             THEN [ms EXCEPT ![row].value_std = r.value, ![row].sample_datetime = IsoFormat(t)]
             ELSE Append(ms, [id |-> NextId(ms), user_id |-> user_id, biomarker_id |-> r.bm,
                              value_std |-> r.value, source_type |-> "calculated",
                              sample_datetime |-> IsoFormat(t), created_at |-> t])
       IN PersistWrites(written, reads, t, user_id, k + 1)

Batches(t) ==
  LET item(b, v) == [candidate |-> TRUE, biomarker_id |-> b, value |-> v, unit |-> "absent",
                     sample_datetime |-> IsoFormat(t)]
  IN {<<>>, <<item(1, R(5))>>, <<item(1, R(0))>>, <<item(2, R(5))>>,
      <<item(1, R(5)), item(2, R(4))>>, <<item(2, R(5)), item(1, NonNumeric)>>,
      <<[item(1, R(5)) EXCEPT !.candidate = FALSE], item(2, R(5))>>}

InitPersist ==
  /\ biomarkers \in SeedCatalogs
  /\ synonyms = <<>>
  /\ conversions = <<>>
  /\ ranges = <<>>
  /\ users = SeedUsers
  /\ now = StartInstant
  /\ \E stored \in BOOLEAN :
       measurements =
         IF stored
         THEN Insert(<<>>, [b \in 1..2 |-> [user_id |-> 1, biomarker_id |-> b, value_std |-> R(5),
                                            source_type |-> "manual",
                                            sample_datetime |-> IsoFormat(now)]], now)
         ELSE <<>>
  /\ ticks = 0
  /\ ret = NoCall
  /\ sessions \in [Workers -> {[pc |-> "approve", user_id |-> u, items |-> b, reads |-> <<>>] :
                                 u \in UserIds, b \in Batches(StartInstant)}]

Finish(w, raised) ==
  /\ sessions' = [sessions EXCEPT ![w].pc = "done"]
  /\ ret' = [op |-> "approve", user_id |-> sessions[w].user_id, raised |-> raised]

\* uploads.py 47-62: the loop over the items and db.commit()
ApproveCommit(w) ==
  /\ sessions[w].pc = "approve"
  /\ LET loop == ApproveItems(biomarkers, conversions, sessions[w].user_id, "lab_pdf",
                              sessions[w].items, <<>>)
     IN IF loop.raised # "none"
        THEN Finish(w, loop.raised) /\ UNCHANGED measurements
        ELSE /\ measurements' = Insert(measurements, loop.rows, now)
             /\ sessions' = [sessions EXCEPT ![w].pc = "persist"]
             /\ UNCHANGED ret
  /\ UNCHANGED <<biomarkers, synonyms, conversions, ranges, users, now, ticks>>

\* composites.py 138-183: calculate_all_composites and the loop's queries
PersistRead(w) ==
  /\ sessions[w].pc = "persist"
  /\ LET user == users[sessions[w].user_id]
         raised == FirstRaised(CalculateAllComposites(biomarkers, measurements, now, user))
     IN IF raised # "none"
        THEN Finish(w, raised)
        ELSE /\ sessions' = [sessions EXCEPT
                               ![w].pc = "commit",
                               ![w].reads = PersistReads(biomarkers, measurements, now, user)]
             /\ UNCHANGED ret
  /\ UNCHANGED <<biomarkers, synonyms, conversions, ranges, users, measurements, now, ticks>>

\* composites.py 185: db.commit()
PersistCommit(w) ==
  /\ sessions[w].pc = "commit"
  /\ measurements' = PersistWrites(measurements, sessions[w].reads, now, sessions[w].user_id, 1)
  /\ Finish(w, "none")
  /\ UNCHANGED <<biomarkers, synonyms, conversions, ranges, users, now, ticks>>

NextPersist == \E w \in Workers : ApproveCommit(w) \/ PersistRead(w) \/ PersistCommit(w)

SpecPersist == InitPersist /\ [][NextPersist]_vars

(***************************************************************************)
(* Concurrent resolve calls: api/uploads.py get_suggestions calls          *)
(* resolve_biomarker with auto_create left at True, each request in its    *)
(* own session.  A call runs its match queries, then the collision         *)
(* queries of create_biomarker_from_name, then the constructors and        *)
(* commits; other calls run between these.  Biomarker.code is unique: a    *)
(* commit of a code that is stored by then raises IntegrityError.          *)
(***************************************************************************)
CreateNames == {<<"a">>, <<"A", " ">>, <<"-", "a">>}

InitCreate ==
  /\ \E rows \in SeqsUpTo(CatalogRows, MaxBiomarkers) :
       /\ UniqueCodes(rows)
       /\ biomarkers = CatalogWithIds(rows)
  /\ synonyms \in SynonymTables(biomarkers)
  /\ conversions = <<>>
  /\ ranges = <<>>
  /\ users = SeedUsers
  /\ measurements = <<>>
  /\ now = StartInstant
  /\ ticks = 0
  /\ ret = NoCall
  /\ sessions \in [Workers -> {[pc |-> "resolve", original_name |-> n, step |-> "none",
                                code |-> <<>>, raised |-> "none", result |-> 0] :
                                 n \in CreateNames}]

Return(w, step, raised, result) ==
  /\ sessions' = [sessions EXCEPT ![w].pc = "done", ![w].step = step,
                                  ![w].raised = raised, ![w].result = result]
  /\ ret' = [op |-> "resolve_biomarker", original_name |-> sessions[w].original_name,
             auto_create |-> TRUE, step |-> step, raised |-> raised, result |-> result]

\* normalize.py 44-63: the three match queries
ResolveMatch(w) ==
  /\ sessions[w].pc = "resolve"
  /\ LET step == ResolveStep(biomarkers, synonyms, sessions[w].original_name, TRUE)
         out == ResolveBiomarker(biomarkers, synonyms, sessions[w].original_name, TRUE)
     IN IF step = "create"
        THEN /\ sessions' = [sessions EXCEPT ![w].pc = "check", ![w].step = step]
             /\ UNCHANGED ret
        ELSE Return(w, step, out.raised, out.result)
  /\ UNCHANGED <<biomarkers, synonyms, conversions, ranges, users, measurements, now, ticks>>

\* normalize.py 73-80: the code and the collision queries
CreateCheck(w) ==
  /\ sessions[w].pc = "check"
  /\ sessions' = [sessions EXCEPT
                    ![w].pc = "construct",
                    ![w].code = UniqueCode(biomarkers, sessions[w].original_name)]
  /\ UNCHANGED <<biomarkers, synonyms, conversions, ranges, users, measurements, now, ticks, ret>>

\* normalize.py 83-105: the constructors, db.add and db.commit
CreateCommit(w) ==
  /\ sessions[w].pc = "construct"
  /\ LET name == sessions[w].original_name
         new_biomarker == [id |-> NextId(biomarkers), code |-> sessions[w].code,
                           name_en |-> name, name_ru |-> name,
                           category |-> "other", unit_std |-> ""]
     IN IF ~ConstructorAccepts(BiomarkerAttrs, NewBiomarkerKwargs)
        THEN Return(w, "create", "TypeError", 0) /\ UNCHANGED <<biomarkers, synonyms>>
        ELSE IF CodeTaken(biomarkers, sessions[w].code)
        THEN Return(w, "create", "IntegrityError", 0) /\ UNCHANGED <<biomarkers, synonyms>>
        ELSE /\ biomarkers' = Append(biomarkers, new_biomarker)
             /\ IF ~ConstructorAccepts(SynonymAttrs, NewSynonymKwargs)
                THEN Return(w, "create", "TypeError", 0) /\ UNCHANGED synonyms
                ELSE /\ synonyms' = Append(synonyms, [id |-> NextId(synonyms),
                                                      biomarker_id |-> new_biomarker.id,
                                                      text |-> name])
                     /\ Return(w, "create", "none", new_biomarker.id)
  /\ UNCHANGED <<conversions, ranges, users, measurements, now, ticks>>

NextCreate == \E w \in Workers : ResolveMatch(w) \/ CreateCheck(w) \/ CreateCommit(w)

SpecCreate == InitCreate /\ [][NextCreate]_vars

(***************************************************************************)
(* The two interpretation functions applied to deltas on a grid of tenths. *)
(***************************************************************************)
MaxDeltaTenths == 70

InterpretDeltas == {Rat(k, 10) : k \in (0 - MaxDeltaTenths)..MaxDeltaTenths}

InitInterpret ==
  /\ biomarkers = <<>>
  /\ synonyms = <<>>
  /\ conversions = <<>>
  /\ ranges = <<>>
  /\ users = SeedUsers
  /\ measurements = <<>>
  /\ now = StartInstant
  /\ ticks = 0
  /\ sessions = <<>>
  /\ \E d \in InterpretDeltas : ret = [op |-> "drawn", age_delta |-> d, result |-> "pending"]

DoGetPhenoageInterpretation ==
  /\ ret.op = "drawn"
  /\ ret' = [op |-> "get_phenoage_interpretation", age_delta |-> ret.age_delta,
             result |-> GetPhenoageInterpretation(ret.age_delta)]
  /\ UNCHANGED <<biomarkers, synonyms, conversions, ranges, users, measurements, now, ticks, sessions>>

DoGetBioageInterpretation ==
  /\ ret.op = "drawn"
  /\ ret' = [op |-> "get_bioage_interpretation", age_delta |-> ret.age_delta,
             result |-> GetBioageInterpretation(ret.age_delta)]
  /\ UNCHANGED <<biomarkers, synonyms, conversions, ranges, users, measurements, now, ticks, sessions>>

NextInterpret == DoGetPhenoageInterpretation \/ DoGetBioageInterpretation

SpecInterpret == InitInterpret /\ [][NextInterpret]_vars

(***************************************************************************)
(* The composite functions applied to drawn person states: one person, at  *)
(* most one row for each of the first two biomarkers of the catalog, the   *)
(* first sampled today or forty days ago.                                  *)
(***************************************************************************)
CompositeValues == {None, R(-1), R(0), R(2), R(5)}

CompositeTables ==
  LET t == StartInstant
      row(b, v, at) == IF v = None THEN <<>> ELSE <<[b |-> b, v |-> v, at |-> at]>>
      table(q) == [i \in DOMAIN q |-> BioRow(i, 1, q[i].b, q[i].v, q[i].at)]
  IN {table(row(1, v1, [day |-> t.day - back, hour |-> t.hour]) \o row(2, v2, t)) :
        v1 \in CompositeValues, v2 \in CompositeValues, back \in {0, 40}}

InitComposite ==
  /\ biomarkers \in SeedCatalogs
  /\ synonyms = <<>>
  /\ conversions = <<>>
  /\ ranges = <<>>
  /\ \E sx \in Sexes, bd \in Birthdates :
       users = [SeedUsers EXCEPT ![1] = [id |-> 1, sex |-> sx, birthdate |-> bd,
                                         date_of_birth |-> None]]
  /\ measurements \in CompositeTables
  /\ now = StartInstant
  /\ ticks = 0
  /\ ret = NoCall
  /\ sessions = <<>>

CompositeCall(op, outcome) ==
  /\ ret = NoCall
  /\ ret' = [op |-> op, user_id |-> 1, raised |-> outcome.raised, result |-> outcome.value]
  /\ UNCHANGED <<biomarkers, synonyms, conversions, ranges, users, measurements, now, ticks, sessions>>

DoCalculateNonHdl == CompositeCall("non_hdl", CalculateNonHdl(biomarkers, measurements, now, 1))

DoCalculateAtherogenicIndex ==
  CompositeCall("atherogenic_index", CalculateAtherogenicIndex(biomarkers, measurements, now, 1))

DoCalculateEgfr == CompositeCall("egfr", CalculateEgfr(biomarkers, measurements, now, users[1]))

DoCalculateBmi == CompositeCall("bmi", CalculateBmi(biomarkers, measurements, now, 1))

NextComposite ==
  DoCalculateNonHdl \/ DoCalculateAtherogenicIndex \/ DoCalculateEgfr \/ DoCalculateBmi

SpecComposite == InitComposite /\ [][NextComposite]_vars

(***************************************************************************)
(* The two latest-value lookups (bioage.py get_latest_biomarker_value,     *)
(* composites.py get_latest_value) read after manual entries whose sample  *)
(* dates all lie inside the composite lookback window.  An hour passes     *)
(* between requests.                                                       *)
(***************************************************************************)
LatestCatalog == <<Bm(1, CREAT, "umol/L"), Bm(2, HDL, "mmol/L")>>

\* sample dates a client enters: 2 and 9 days before the request
LatestSamples(t) == {IsoDate(t.day - 2), IsoDate(t.day - 9)}

LatestValues == {R(3), R(7)}

InitLatest ==
  /\ biomarkers = LatestCatalog
  /\ synonyms = <<>>
  /\ conversions = SeedConversions
  /\ ranges = <<>>
  /\ users = SeedUsers
  /\ measurements = <<>>
  /\ now = StartInstant
  /\ ticks = 0
  /\ sessions = <<>>
  /\ ret = NoCall

DoLatestAdd ==
  \E u \in UserIds, b \in DOMAIN LatestCatalog, v \in LatestValues, s \in LatestSamples(now) :
    AddMeasurement(u, b, v, LatestCatalog[b].unit_std, s)

\* the clock between two requests
HourPasses ==
  /\ ticks < MaxTicks
  /\ ticks' = ticks + 1
  /\ now' = [now EXCEPT !.hour = @ + 1]
  /\ UNCHANGED <<biomarkers, synonyms, conversions, ranges, users, measurements, ret, sessions>>

\* both engines read one biomarker of one person in the same request
DoLatestRead ==
  /\ \E u \in UserIds, b \in DOMAIN LatestCatalog :
       ret' = [op |-> "latest", user_id |-> u, biomarker_id |-> b,
               at |-> now, stored |-> Len(measurements),
               bioage |-> GetLatestBiomarkerValue(biomarkers, measurements, users[u],
                                                  LatestCatalog[b].code),
               composite |-> GetLatestValue(biomarkers, measurements, now, u,
                                            LatestCatalog[b].code, LookbackDays)]
  /\ UNCHANGED <<biomarkers, synonyms, conversions, ranges, users, measurements, now, ticks, sessions>>

NextLatest == DoLatestAdd \/ HourPasses \/ DoLatestRead

SpecLatest == InitLatest /\ [][NextLatest]_vars

(***************************************************************************)
(* The read-only views: api/measurements.py get_biomarker_stats,           *)
(* api/timeline.py get_timeline, api/dashboard.py overview.  Each          *)
(* classifies measurements against the range select_reference returns.     *)
(***************************************************************************)
\* truth value of an optional float in a Python condition
Truthy(x) == x # None /\ x # R(0)

\* order_by(sample_datetime.desc()).all() over the rows given
RECURSIVE OrderBySampleDesc(_, _)
OrderBySampleDesc(ms, rows) ==
  IF rows = {} THEN <<>>
  ELSE LET i == LatestRow(ms, rows)
       IN <<i>> \o OrderBySampleDesc(ms, rows \ {i})

\* 'status' when the view tests the bounds with "is not None"
StatusIfBoundsNotNone(value, ref) ==
  IF ref # None /\ ref.low # None /\ ref.high # None
  THEN StatusAgainstRef(value, ref.low, ref.high) ELSE "unknown"

\* 'status' when the view tests the bounds by their truth value
StatusIfBoundsTruthy(value, ref) ==
  IF ref # None /\ Truthy(ref.low) /\ Truthy(ref.high)
  THEN StatusAgainstRef(value, ref.low, ref.high) ELSE "unknown"

GetBiomarkerStats(bms, rngs, ms, t, user, biomarker_id) ==
  IF ~HasBiomarker(bms, biomarker_id) THEN Raises("HTTPException")
  ELSE LET rows == {i \in DOMAIN ms : ms[i].user_id = user.id /\ ms[i].biomarker_id = biomarker_id}
           ordered == OrderBySampleDesc(ms, rows)
           ref == SelectReference(rngs, biomarker_id, user, t)
       IN IF rows = {}
          THEN Computed([count |-> 0, latest_value |-> None, latest_date |-> None,
                         status |-> "no_data", reference |-> None, history |-> <<>>])
          ELSE Computed([count |-> Len(ordered),
                         latest_value |-> ms[ordered[1]].value_std,
                         latest_date |-> ms[ordered[1]].sample_datetime,
                         status |-> StatusIfBoundsNotNone(ms[ordered[1]].value_std, ref),
                         reference |-> IF ref = None THEN None
                                       ELSE [low |-> ref.low, high |-> ref.high],
                         history |-> [k \in DOMAIN ordered |->
                                        [date |-> ms[ordered[k]].sample_datetime,
                                         value |-> ms[ordered[k]].value_std,
                                         source |-> ms[ordered[k]].source_type,
                                         status |-> StatusIfBoundsTruthy(ms[ordered[k]].value_std, ref)]]])

\* text.split()[0]: the first run of non-blank characters, if there is one
FirstWord(text) == SplitFirst(LStrip(text), " ")

\* the key a measurement is grouped under in the timeline
DateStr(text) ==
  IF \E k \in DOMAIN text : text[k] = "T" THEN Computed(SplitFirst(text, "T"))
  ELSE IF FirstWord(text) = <<>> THEN Raises("IndexError")
  ELSE Computed(FirstWord(text))

\* sorted(keys, reverse=True)
RECURSIVE SortedDesc(_)
SortedDesc(keys) ==
  IF keys = {} THEN <<>>
  ELSE LET top == CHOOSE a \in keys : \A b \in keys : ~LexLess(a, b)
       IN <<top>> \o SortedDesc(keys \ {top})

GetTimeline(bms, rngs, ms, t, user) ==
  LET ordered == OrderBySampleDesc(ms, {i \in DOMAIN ms : ms[i].user_id = user.id})
      item(i) == [id |-> ms[i].id,
                  biomarker_code |-> BiomarkerRow(bms, ms[i].biomarker_id).code,
                  value |-> ms[i].value_std,
                  status |-> StatusIfBoundsTruthy(ms[i].value_std,
                                                  SelectReference(rngs, ms[i].biomarker_id, user, t)),
                  source |-> ms[i].source_type]
      items(date) == SelectSeq(ordered, LAMBDA i : DateStr(ms[i].sample_datetime).value = date)
      dates == SortedDesc({DateStr(ms[ordered[k]].sample_datetime).value : k \in DOMAIN ordered})
  IN IF \E k \in DOMAIN ordered : DateStr(ms[ordered[k]].sample_datetime).raised # "none"
     THEN Raises("IndexError")
     ELSE IF \E k \in DOMAIN ordered : ~HasBiomarker(bms, ms[ordered[k]].biomarker_id)
     THEN Raises("AttributeError")
     ELSE Computed([d \in DOMAIN dates |->
                      [date |-> dates[d], count |-> Len(items(dates[d])),
                       measurements |-> [k \in DOMAIN items(dates[d]) |->
                                           item(items(dates[d])[k])]]])

\* the tracked_biomarkers list of the dashboard overview, in catalog order
RECURSIVE TrackedBiomarkers(_, _, _, _, _, _)
TrackedBiomarkers(bms, rngs, ms, t, user, k) ==
  IF k > Len(bms) THEN <<>>
  ELSE LET rows == {i \in DOMAIN ms : ms[i].user_id = user.id /\ ms[i].biomarker_id = bms[k].id}
           m == ms[LatestRow(ms, rows)]
           rest == TrackedBiomarkers(bms, rngs, ms, t, user, k + 1)
       IN IF rows = {} THEN rest
          ELSE <<[id |-> bms[k].id, code |-> bms[k].code, value |-> m.value_std,
                  date |-> m.sample_datetime,
                  status |-> StatusIfBoundsNotNone(m.value_std,
                                                   SelectReference(rngs, bms[k].id, user, t))]>>
               \o rest

Overview(bms, rngs, ms, t, user) == Computed(TrackedBiomarkers(bms, rngs, ms, t, user, 1))

\* the ranges of one biomarker a table holds: none, or one for every person
ViewRanges ==
  {<<>>} \cup
  {WithIds(<<[biomarker_id |-> 1, sex |-> "any", age_min |-> 0, age_max |-> 200,
              low |-> low, high |-> high]>>) :
     low \in {None, R(0), R(2)}, high \in {None, R(10)}}

\* measurements of person 1: values below, inside and above the ranges,
\* sampled now, two days ago, or without a date
ViewRows(t) ==
  {[user_id |-> 1, biomarker_id |-> b, value_std |-> v, source_type |-> "manual",
    sample_datetime |-> sd] :
     b \in {1, 2}, v \in {R(0), R(5), R(11)}, sd \in {IsoFormat(t), IsoDate(t.day - 2), <<>>}}

InitViews ==
  /\ biomarkers = LatestCatalog
  /\ synonyms = <<>>
  /\ conversions = SeedConversions
  /\ ranges \in ViewRanges
  /\ users = SeedUsers
  /\ \E rows \in SeqsUpTo(ViewRows(StartInstant), MaxMeasurements) :
       measurements = Insert(<<>>, rows, StartInstant)
  /\ now = StartInstant
  /\ ticks = 0
  /\ sessions = <<>>
  /\ ret = NoCall

ViewCall(op, u, biomarker_id, outcome) ==
  /\ ret' = [op |-> op, user_id |-> u, biomarker_id |-> biomarker_id,
             raised |-> outcome.raised, result |-> outcome.value]
  /\ UNCHANGED <<biomarkers, synonyms, conversions, ranges, users, measurements, now, ticks, sessions>>

DoGetBiomarkerStats ==
  \E u \in UserIds, b \in 1..(Len(biomarkers) + 1) :
    ViewCall("get_biomarker_stats", u, b,
             GetBiomarkerStats(biomarkers, ranges, measurements, now, users[u], b))

DoGetTimeline ==
  \E u \in UserIds :
    ViewCall("get_timeline", u, 0, GetTimeline(biomarkers, ranges, measurements, now, users[u]))

DoOverview ==
  \E u \in UserIds :
    ViewCall("overview", u, 0, Overview(biomarkers, ranges, measurements, now, users[u]))

NextViews == DoGetBiomarkerStats \/ DoGetTimeline \/ DoOverview

SpecViews == InitViews /\ [][NextViews]_vars

(***************************************************************************)
(* resolve_biomarker called with auto_create=True several times in a row,  *)
(* each call running to its end before the next begins.  sessions is the   *)
(* log of the calls made.                                                  *)
(***************************************************************************)
MaxCalls == 3

InitRepeat ==
  /\ \E rows \in SeqsUpTo(CatalogRows, MaxBiomarkers) :
       /\ UniqueCodes(rows)
       /\ biomarkers = CatalogWithIds(rows)
  /\ synonyms \in SynonymTables(biomarkers)
  /\ conversions = <<>>
  /\ ranges = <<>>
  /\ users = SeedUsers
  /\ measurements = <<>>
  /\ now = StartInstant
  /\ ticks = 0
  /\ sessions = <<>>
  /\ ret = NoCall

DoResolveAgain ==
  /\ Len(sessions) < MaxCalls
  /\ \E name \in CreateNames :
       LET out == ResolveBiomarker(biomarkers, synonyms, name, TRUE)
       IN /\ biomarkers' = out.biomarkers
          /\ synonyms' = out.synonyms
          /\ ret' = [op |-> "resolve_biomarker", original_name |-> name, auto_create |-> TRUE,
                     step |-> ResolveStep(biomarkers, synonyms, name, TRUE),
                     raised |-> out.raised, result |-> out.result]
          /\ sessions' = Append(sessions,
                                [original_name |-> name, raised |-> out.raised,
                                 result |-> out.result,
                                 biomarkers_created |-> Len(out.biomarkers) - Len(biomarkers),
                                 synonyms_created |-> Len(out.synonyms) - Len(synonyms)])
  /\ UNCHANGED <<conversions, ranges, users, measurements, now, ticks>>

SpecRepeat == InitRepeat /\ [][DoResolveAgain]_vars

(***************************************************************************)
(* The result dicts of bioage.py, built from the quantities the functions  *)
(* have computed when they reach their return statement: the unrounded     *)
(* age_delta of calculate_phenoage, the score and count of                 *)
(* calculate_simple_bioage, the two reported age_delta values averaged by  *)
(* calculate_all_bioages.                                                  *)
(***************************************************************************)
MaxDeltaHundredths == 600
MaxScored == 10
MaxPenalty == 15

\* bioage.py 114-120
PhenoageResult(age_delta) ==
  [age_delta |-> Round1(age_delta), interpretation |-> GetPhenoageInterpretation(age_delta)]

\* bioage.py 272-289
SimpleBioageResult(score, count) ==
  LET avg_score == Rat(score, count)
      age_delta == RSub(avg_score, R(5))
  IN [age_delta |-> Round1(age_delta), aging_score |-> Round1(avg_score),
      biomarkers_used |-> count, interpretation |-> GetBioageInterpretation(age_delta)]

\* bioage.py 336-342
AverageResult(phenoage_delta, simple_delta) ==
  LET avg_delta == RDiv(RAdd(phenoage_delta, simple_delta), R(2))
  IN [age_delta |-> Round1(avg_delta), interpretation |-> GetBioageInterpretation(avg_delta)]

ReportInputs ==
  {[kind |-> "phenoage", age_delta |-> Rat(k, 100)] :
     k \in (0 - MaxDeltaHundredths)..MaxDeltaHundredths}
  \cup {[kind |-> "simple_bioage", score |-> sc, count |-> c] :
          sc \in 0..(MaxPenalty * MaxScored), c \in 1..MaxScored}
  \cup {[kind |-> "average", phenoage |-> a, simple_bioage |-> Rat(b, 10)] :
          a \in InterpretDeltas, b \in -50..50}

InitReport ==
  /\ biomarkers = <<>>
  /\ synonyms = <<>>
  /\ conversions = <<>>
  /\ ranges = <<>>
  /\ users = SeedUsers
  /\ measurements = <<>>
  /\ now = StartInstant
  /\ ticks = 0
  /\ sessions = <<>>
  /\ \E input \in ReportInputs : ret = [op |-> "drawn", input |-> input]

ReportCall(op, input, result) ==
  /\ ret' = [op |-> op, input |-> input, result |-> result]
  /\ UNCHANGED <<biomarkers, synonyms, conversions, ranges, users, measurements, now, ticks, sessions>>

DoPhenoageResult ==
  /\ ret.op = "drawn" /\ ret.input.kind = "phenoage"
  /\ ReportCall("phenoage_result", ret.input, PhenoageResult(ret.input.age_delta))

DoSimpleBioageResult ==
  /\ ret.op = "drawn" /\ ret.input.kind = "simple_bioage"
  /\ ret.input.score <= MaxPenalty * ret.input.count
  /\ ReportCall("simple_bioage_result", ret.input,
                SimpleBioageResult(ret.input.score, ret.input.count))

DoAverageResult ==
  /\ ret.op = "drawn" /\ ret.input.kind = "average"
  /\ ReportCall("average_result", ret.input,
                AverageResult(ret.input.phenoage, ret.input.simple_bioage))

NextReport == DoPhenoageResult \/ DoSimpleBioageResult \/ DoAverageResult

SpecReport == InitReport /\ [][NextReport]_vars

(***************************************************************************)
(* Properties.                                                             *)
(***************************************************************************)

\* C1: a step of the pipeline (the persist step runs inside approve) changes
\* an existing Measurement only if its source_type is 'calculated' and its
\* sample time is within the last 1 day; every Measurement with another
\* source_type keeps its value and its sample timestamp.
C1_PersistOverwritesOnlyCalculated ==
  [][\A i \in DOMAIN measurements :
       /\ i \in DOMAIN measurements'
       /\ (measurements[i].source_type # "calculated" =>
             /\ measurements'[i].value_std = measurements[i].value_std
             /\ measurements'[i].sample_datetime = measurements[i].sample_datetime)
       /\ (measurements'[i] # measurements[i] =>
             /\ measurements[i].source_type = "calculated"
             /\ StrGe(measurements[i].sample_datetime, IsoFormat(MinusDays(now, RecentDays))))]_vars

\* synonyms whose text equals the observed name, letter case aside
C2_SynonymMatch(name) ==
  {i \in DOMAIN synonyms : PyLower(synonyms[i].text) = PyStrip(PyLower(name))}

\* C2: resolve_biomarker returns the biomarker matched by code when there is
\* one; with no code match, a biomarker bound to a synonym whose text equals
\* the observed name case-insensitively; with neither, the first biomarker
\* matched by display-name substring; and it reaches auto-creation only when
\* none of the three matches.
C2_Precedence ==
  [][ret'.op = "resolve_biomarker" =>
       LET name == ret'.original_name
           code == {i \in DOMAIN biomarkers : biomarkers[i].code = PyUpper(name)}
           syn == C2_SynonymMatch(name)
           sub == SubstringMatches(biomarkers, name)
       IN /\ code # {} => ret'.result = biomarkers[First(code)].id
          /\ (code = {} /\ syn # {}) =>
               ret'.result \in {synonyms[i].biomarker_id : i \in syn}
          /\ (code = {} /\ syn = {} /\ sub # {}) =>
               ret'.result = biomarkers[First(sub)].id
          /\ ret'.step = "create" => (code = {} /\ syn = {} /\ sub = {})]_vars

\* the smallest numeric suffix that makes the code unused
C3_SmallestSuffix(code) ==
  CHOOSE k \in 1..(Len(biomarkers) + 1) :
    /\ ~CodeTaken(biomarkers, Suffixed(code, k))
    /\ \A j \in 1..(k - 1) : CodeTaken(biomarkers, Suffixed(code, j))

\* C3: a call of create_biomarker_from_name leaves all Biomarker codes pairwise
\* distinct and every existing code unchanged, and when the generated code is
\* already taken it does not fail: it stores the new Biomarker under the
\* generated code followed by the smallest unused numeric suffix.
C3_UniqueSuffixedCodes ==
  [][ret'.op = "create_biomarker_from_name" =>
       LET code == GeneratedCode(ret'.name)
       IN /\ \A i, j \in DOMAIN biomarkers' :
               biomarkers'[i].code = biomarkers'[j].code => i = j
          /\ \A i \in DOMAIN biomarkers :
               i \in DOMAIN biomarkers' /\ biomarkers'[i].code = biomarkers[i].code
          /\ CodeTaken(biomarkers, code) =>
               /\ ret'.raised = "none"
               /\ \E i \in DOMAIN biomarkers' \ DOMAIN biomarkers :
                    biomarkers'[i].code = Suffixed(code, C3_SmallestSuffix(code))]_vars

\* C4: when resolve_biomarker is called with auto_create true and nothing
\* matches, it returns normally a newly stored Biomarker of category 'other'
\* with an empty unit, and a synonym with the observed name as its text and
\* that Biomarker as its owner is stored when it returns.
C4_AutoCreateStoresBiomarkerAndSynonym ==
  [][(ret'.op = "resolve_biomarker" /\ ret'.step = "create") =>
       /\ ret'.raised = "none"
       /\ \E i \in DOMAIN biomarkers' \ DOMAIN biomarkers :
            /\ biomarkers'[i].id = ret'.result
            /\ biomarkers'[i].category = "other"
            /\ biomarkers'[i].unit_std = ""
       /\ \E i \in DOMAIN synonyms' :
            /\ synonyms'[i].text = ret'.original_name
            /\ synonyms'[i].biomarker_id = ret'.result]_vars

\* C5: status_against_ref returns "unknown" when a bound is null or low = high,
\* otherwise "out_of_range" when value < low or value > high, otherwise
\* "optimal" exactly when 0.3 <= (value - low)/(high - low) <= 0.7 (both ends
\* inclusive) and "borderline" for every other in-range value; so
\* classify(3.0, 0, 10) is optimal and classify(2.99, 0, 10) is borderline.
C5_ClassifyBands ==
  (ret.op = "status_against_ref" /\ ret.result # "pending") =>
    /\ IF ret.low = None \/ ret.high = None THEN ret.result = "unknown"
       ELSE LET V == ret.value.n * ret.low.d * ret.high.d
                L == ret.low.n * ret.value.d * ret.high.d
                H == ret.high.n * ret.value.d * ret.low.d
            IN IF L = H THEN ret.result = "unknown"
               ELSE IF V < L \/ V > H THEN ret.result = "out_of_range"
               ELSE IF 3 * (H - L) <= 10 * (V - L) /\ 10 * (V - L) <= 7 * (H - L)
               THEN ret.result = "optimal"
               ELSE ret.result = "borderline"
    /\ (ret.value = R(3) /\ ret.low = R(0) /\ ret.high = R(10)) => ret.result = "optimal"
    /\ (ret.value = Rat(299, 100) /\ ret.low = R(0) /\ ret.high = R(10))
         => ret.result = "borderline"

\* classify(3.0, 0, 10) has returned: the value sits on the inclusive 0.3 boundary
C5_Witness ==
  /\ ret.op = "status_against_ref"
  /\ ret.value = R(3) /\ ret.low = R(0) /\ ret.high = R(10)
  /\ ret.result = "optimal"

\* indices of the reference ranges of the biomarker of the last select_reference call
C6_Candidates == {i \in DOMAIN ranges : ranges[i].biomarker_id = ret.biomarker_id}

C6_Score(i) == Score(ranges[i], users[ret.user_id], now)

\* C6: select_reference returns null when the biomarker has no range; otherwise
\* it returns a range of that biomarker whose score is maximal, and among the
\* ranges tied at the maximum the one that comes first in iteration order.
C6_SelectMaxFirst ==
  ret.op = "select_reference" =>
    IF C6_Candidates = {} THEN ret.result = None
    ELSE \E i \in C6_Candidates :
           /\ ret.result = ranges[i]
           /\ \A j \in C6_Candidates : C6_Score(j) <= C6_Score(i)
           /\ \A j \in C6_Candidates : j < i => C6_Score(j) < C6_Score(i)

\* two ranges of the biomarker tie at the maximal score and the earlier one was returned
C6_Witness ==
  /\ ret.op = "select_reference"
  /\ \E i, j \in C6_Candidates :
       /\ i < j
       /\ C6_Score(i) = C6_Score(j)
       /\ \A k \in C6_Candidates : C6_Score(k) <= C6_Score(i)
       /\ ret.result = ranges[i]
       /\ ranges[i].sex # ranges[j].sex

\* the birth year a birth date states, where it states one
C7_BirthYear(birthdate) ==
  IF birthdate = Birthdate1990 THEN Known(1990)
  ELSE IF birthdate = Birthdate1980 THEN Known(1980)
  ELSE Unknown

C7_Expected(rr, user) ==
  LET facet == IF user.sex = "m" THEN "m" ELSE IF user.sex = "f" THEN "f" ELSE "any"
      born == C7_BirthYear(user.birthdate)
      age == 2026 - born.v
  IN (IF rr.sex = facet THEN 2 ELSE IF rr.sex = "any" THEN 1 ELSE 0)
     + (IF born.known /\ rr.age_min <= age /\ age <= rr.age_max THEN 2 ELSE 0)

\* C7: the score of a candidate range is +2 if its sex facet equals the
\* person's facet (their sex when it is m or f, "any" otherwise), else +1 if
\* the candidate's facet is "any", plus +2 if the person's integer age (current
\* year minus birth year) lies in [age_min, age_max]; an absent or unparseable
\* birth date gives an unknown age, which contributes 0 and raises nothing.
C7_ScoreFormula ==
  ret.op = "select_reference" =>
    /\ CurrentYear(now) = 2026
    /\ Len(ret.scores) = Cardinality(C6_Candidates)
    /\ \A k \in DOMAIN ret.scores :
         ret.scores[k] = C7_Expected(RangesFor(ranges, ret.biomarker_id)[k], users[ret.user_id])

\* a person of another sex with an unparseable birth date was scored against
\* an "any" range (2 points: facet match, no age points) and one with a known
\* age inside the band of a range of the other sex (2 points: age only)
C7_Witness ==
  /\ ret.op = "select_reference"
  /\ users[ret.user_id].sex = "x"
  /\ users[ret.user_id].birthdate = BirthdateText
  /\ \E k \in DOMAIN ret.scores :
       /\ RangesFor(ranges, ret.biomarker_id)[k].sex = "any"
       /\ RangesFor(ranges, ret.biomarker_id)[k].age_max = 200
       /\ ret.scores[k] = 2

\* edges of the conversion table from one unit to another
C8_Edges(f, t) == {i \in DOMAIN conversions :
                     conversions[i].from_unit = f /\ conversions[i].to_unit = t}

\* C8: for from_unit # to_unit, convert consults only the directed edge
\* (from_unit, to_unit): if it exists the result is value * factor + offset,
\* otherwise the value is returned unchanged, even when the reverse edge
\* (to_unit, from_unit) is in the table.
C8_DirectedEdgeOnly ==
  (ret.op = "convert_unit" /\ ret.from_unit # ret.to_unit) =>
    IF C8_Edges(ret.from_unit, ret.to_unit) = {} THEN ret.result = ret.value
    ELSE \E i \in C8_Edges(ret.from_unit, ret.to_unit) :
           /\ \A j \in C8_Edges(ret.from_unit, ret.to_unit) : i <= j
           /\ ret.result = Rat(ret.value.n * conversions[i].factor.n * conversions[i].offset.d
                                 + conversions[i].offset.n * ret.value.d * conversions[i].factor.d,
                               ret.value.d * conversions[i].factor.d * conversions[i].offset.d)

\* a conversion was asked for with only the reverse edge in the table, and an
\* edge that would have changed the value; the value came back unchanged
C8_Witness ==
  /\ ret.op = "convert_unit"
  /\ ret.from_unit # ret.to_unit
  /\ C8_Edges(ret.from_unit, ret.to_unit) = {}
  /\ C8_Edges(ret.to_unit, ret.from_unit) # {}
  /\ ret.value = R(5)
  /\ ret.result = R(5)

\* C9: convert(v, u, u) returns v exactly, without consulting the table, even
\* if the table has a self-edge (u, u) with a factor other than 1 or a
\* non-zero offset.
C9_IdentityShortCircuit ==
  (ret.op = "convert_unit" /\ ret.from_unit = ret.to_unit) => ret.result = ret.value

\* an identity conversion returned while the table held a self-edge for the unit
C9_Witness ==
  /\ ret.op = "convert_unit"
  /\ ret.from_unit = ret.to_unit
  /\ C8_Edges(ret.from_unit, ret.from_unit) # {}
  /\ ret.value = R(5)
  /\ ret.result = R(5)

C10_TwoDigits(text, i) == 10 * DigitVal(text[i]) + DigitVal(text[i + 1])

C10_FourDigits(text, i) == 100 * C10_TwoDigits(text, i) + C10_TwoDigits(text, i + 2)

RECURSIVE C10_DaysBeforeYear(_)
C10_DaysBeforeYear(y) == IF y <= 2024 THEN 0 ELSE DaysInYear(y - 1) + C10_DaysBeforeYear(y - 1)

RECURSIVE C10_DaysBeforeMonth(_, _)
C10_DaysBeforeMonth(y, m) ==
  IF m <= 1 THEN 0 ELSE DaysInMonth(y, m - 1) + C10_DaysBeforeMonth(y, m - 1)

C10_DayNumber(y, m, d) == C10_DaysBeforeYear(y) + C10_DaysBeforeMonth(y, m) + d - 1

\* the instant a sample timestamp denotes, in hours; unknown for an empty text
C10_Instant(text) ==
  IF Len(text) >= 10 /\ text[5] = "-"
  THEN Known(24 * C10_DayNumber(C10_FourDigits(text, 1), C10_TwoDigits(text, 6),
                                C10_TwoDigits(text, 9))
             + (IF Len(text) >= 13 THEN C10_TwoDigits(text, 12) ELSE 0))
  ELSE IF Len(text) = 10 /\ text[3] = "."
  THEN Known(24 * C10_DayNumber(C10_FourDigits(text, 7), C10_TwoDigits(text, 4),
                                C10_TwoDigits(text, 1)))
  ELSE Unknown

C10_InWindow(code, user_id, days) ==
  {i \in DOMAIN measurements :
     /\ measurements[i].user_id = user_id
     /\ measurements[i].biomarker_id = BiomarkerIdByCode(biomarkers, code)
     /\ C10_Instant(measurements[i].sample_datetime).known
     /\ C10_Instant(measurements[i].sample_datetime).v >= 24 * (now.day - days) + now.hour}

\* the values of the measurements sampled latest inside the window
C10_Input(code, user_id, days) ==
  LET W == C10_InWindow(code, user_id, days)
  IN {measurements[i].value_std :
        i \in {j \in W : \A k \in W : C10_Instant(measurements[k].sample_datetime).v
                                        <= C10_Instant(measurements[j].sample_datetime).v}}

\* C10: calculate_all_composites takes, for each required input, the value of
\* the person's measurement sampled latest among those sampled inside the
\* lookback window (30 days for CHOL, HDL and CREAT, 365 days for WEIGHT and
\* HEIGHT), and a composite with an input that has no measurement inside its
\* window is null without an error.
C10_LatestWithinWindow ==
  [][(ret'.op = "calculate_all_composites" /\ ret' # ret) =>
       LET u == ret'.user_id
           chol == C10_Input(CHOL, u, LookbackDays)
           hdl == C10_Input(HDL, u, LookbackDays)
           creat == C10_Input(CREAT, u, LookbackDays)
           weight == C10_Input(WEIGHT, u, AnthropometricLookbackDays)
           height == C10_Input(HEIGHT, u, AnthropometricLookbackDays)
       IN /\ IF chol = {} \/ hdl = {}
             THEN ret'.result[1] = Computed(None) /\ ret'.result[2] = Computed(None)
             ELSE ret'.result[1] \in {Computed(RSub(c, h)) : c \in chol, h \in hdl}
          /\ creat = {} => ret'.result[4] = Computed(None)
          /\ (creat # {} /\ ret'.result[4].value # None) =>
               ret'.result[4].value.creat_mg_dl \in {RDiv(c, Rat(884, 10)) : c \in creat}
          /\ IF weight = {} \/ height = {}
             THEN ret'.result[5] = Computed(None)
             ELSE ret'.result[5] \in
                    {IF RLt(R(0), h)
                     THEN Computed(Round1(RDiv(w, RMul(RDiv(h, R(100)), RDiv(h, R(100))))))
                     ELSE Computed(None) : w \in weight, h \in height}]_vars

\* the PhenoAge inputs of a person that have no stored row, by display name
C11_Absent(u) ==
  MapSeq(LAMBDA k : PhenoInputs[k][2],
         SelectSeq([k \in DOMAIN PhenoInputs |-> k],
                   LAMBDA k : \A i \in DOMAIN measurements :
                                ~(measurements[i].user_id = u /\ measurements[i].biomarker_id = k)))

\* C11: a phenoage call for a person whose birth date is unknown, or who
\* lacks at least one of the nine inputs, returns an error result (it does
\* not raise) with no pheno-age value; when the birth date is known and an
\* input is absent the result's `missing` lists exactly the absent inputs.
C11_ErrorResultWhenInputsLack ==
  (ret.op = "phenoage"
     /\ (users[ret.user_id].date_of_birth = None \/ C11_Absent(ret.user_id) # <<>>))
    => /\ ret.raised = "none"
       /\ HasError(ret.result)
       /\ users[ret.user_id].date_of_birth # None
            => /\ ret.result.missing = C11_Absent(ret.user_id)
               /\ ret.result.phenoage = None

\* C12: whatever the person's stored state, a phenoage, simple_bioage or
\* all_bioages call returns a result or an error value; it never raises.
C12_BioageNeverRaises ==
  ret.op \in {"phenoage", "simple_bioage", "all_bioages"} => ret.raised = "none"

\* the scored biomarkers of a person that have a stored row, in table order
C13_Available(u) ==
  SelectSeq(SimpleScored,
            LAMBDA code : GetLatestBiomarkerValue(biomarkers, measurements, users[u], code) # None)

C13_Penalties(u) ==
  MapSeq(LAMBDA code : SimplePenalty(code, GetLatestBiomarkerValue(biomarkers, measurements,
                                                                   users[u], code)),
         C13_Available(u))

\* C13: a simple_bioage call for a person whose birth date is known returns
\* an error exactly when none of the scored biomarkers has a measurement;
\* otherwise its count is the number of scored biomarkers with a latest
\* measurement and its average score is the sum of their penalties divided
\* by that count.
C13_SimpleBioageCountsAvailable ==
  (ret.op = "simple_bioage" /\ users[ret.user_id].date_of_birth # None)
    => /\ ret.raised = "none"
       /\ HasError(ret.result) <=> C13_Available(ret.user_id) = <<>>
       /\ ~HasError(ret.result)
            => /\ ret.result.biomarkers_used = Len(C13_Available(ret.user_id))
               /\ ret.result.aging_score
                    = Round1(Rat(SumSeq(C13_Penalties(ret.user_id)),
                                 Len(C13_Available(ret.user_id))))

C14_Succeeds(outcome) == outcome.raised = "none" /\ ~HasError(outcome.value)

C14_Keys == {e.key : e \in ret.result}

\* C14: an all_bioages call returns a mapping that holds an entry for each
\* estimate that succeeds and none for one that fails, holds `average`
\* exactly when both estimates succeed, and is empty when both fail.
C14_AverageIffBothSucceed ==
  ret.op = "all_bioages"
    => LET user == users[ret.user_id]
           pheno == C14_Succeeds(CalculatePhenoage(biomarkers, measurements, now, user))
           simple == C14_Succeeds(CalculateSimpleBioage(biomarkers, measurements, now, user))
       IN /\ ret.raised = "none"
          /\ "phenoage" \in C14_Keys <=> pheno
          /\ "simple_bioage" \in C14_Keys <=> simple
          /\ "average" \in C14_Keys <=> (pheno /\ simple)
          /\ (~pheno /\ ~simple) => ret.result = {}

\* the calendar day of a stored timestamp text
C15_Day(sample_datetime) == Prefix(sample_datetime, 10)

\* C15: under every interleaving of concurrent approvals, a person has at
\* most one calculated Measurement per composite biomarker and day: two
\* persist steps never both insert one.
C15_OneCalculatedRowPerDay ==
  \A i, j \in DOMAIN measurements :
    (/\ measurements[i].source_type = "calculated"
     /\ measurements[j].source_type = "calculated"
     /\ measurements[i].user_id = measurements[j].user_id
     /\ measurements[i].biomarker_id = measurements[j].biomarker_id
     /\ C15_Day(measurements[i].sample_datetime) = C15_Day(measurements[j].sample_datetime))
      => i = j

C17_StoredFor ==
  {measurements'[i].user_id :
     i \in {k \in DOMAIN measurements' : /\ k > Len(measurements)
                                          /\ measurements'[k].source_type # "calculated"}}

\* C17: every operation that stores a new raw Measurement for a person has
\* run the composite persist step for that person before it returns: on its
\* return, running the persist step again changes nothing.
C17_PersistAfterEveryStore ==
  [][\A u \in C17_StoredFor :
       LET saved == AutoSaveComposites(biomarkers, measurements', now, users[u])
       IN saved.raised = "none" => saved.measurements = measurements']_vars

\* the items of a batch that name a candidate and a biomarker that exist and
\* carry a numeric value, for one biomarker
C18_WellFormed(items, b) ==
  SelectSeq(items, LAMBDA it : /\ it.candidate
                               /\ HasBiomarker(biomarkers, it.biomarker_id)
                               /\ it.value # NonNumeric
                               /\ it.biomarker_id = b)

\* C18: once the approvals' loops have run, each person's stored lab rows
\* per biomarker are exactly the well-formed items of the batches approved
\* for that person: an item that fails to parse, or lacks its candidate or
\* biomarker, is skipped and blocks no other item.
C18_WellFormedItemsStored ==
  \A u \in UserIds, b \in 1..Len(biomarkers) :
    Cardinality({i \in DOMAIN measurements : /\ measurements[i].user_id = u
                                             /\ measurements[i].biomarker_id = b
                                             /\ measurements[i].source_type = "lab_pdf"})
      = SumSeq([w \in DOMAIN sessions |->
                  IF sessions[w].pc # "approve" /\ sessions[w].user_id = u
                  THEN Len(C18_WellFormed(sessions[w].items, b))
                  ELSE 0])

\* the rows of the table that one person owns
C19_Own(u) == SelectSeq(measurements, LAMBDA m : m.user_id = u)

\* C19: what compute_all, phenoage, simple_bioage and all_bioages return for
\* a person is what they return on that person's rows alone, whatever rows
\* other persons have, and so is the latest value the biological-age
\* functions read; the persist step run for a person changes only rows that
\* person owns and inserts only rows owned by that person.
C19_ScopedToOnePerson ==
  \A u \in UserIds :
    LET user == users[u]
        saved == AutoSaveComposites(biomarkers, measurements, now, user).measurements
    IN /\ CalculateAllComposites(biomarkers, measurements, now, user)
            = CalculateAllComposites(biomarkers, C19_Own(u), now, user)
       /\ CalculatePhenoage(biomarkers, measurements, now, user)
            = CalculatePhenoage(biomarkers, C19_Own(u), now, user)
       /\ CalculateSimpleBioage(biomarkers, measurements, now, user)
            = CalculateSimpleBioage(biomarkers, C19_Own(u), now, user)
       /\ CalculateAllBioages(biomarkers, measurements, now, user)
            = CalculateAllBioages(biomarkers, C19_Own(u), now, user)
       /\ \A b \in DOMAIN biomarkers :
            GetLatestBiomarkerValue(biomarkers, measurements, user, biomarkers[b].code)
              = GetLatestBiomarkerValue(biomarkers, C19_Own(u), user, biomarkers[b].code)
       /\ \A i \in DOMAIN measurements :
            saved[i] # measurements[i] => measurements[i].user_id = u /\ saved[i].user_id = u
       /\ \A i \in DOMAIN saved : i > Len(measurements) => saved[i].user_id = u

\* a person has a composite to persist while another person holds a row of
\* one of the same biomarkers
C19_Witness ==
  \E u \in UserIds :
    /\ \E k \in DOMAIN CompositeCodes :
         CalculateAllComposites(biomarkers, measurements, now, users[u])[k].value # None
    /\ AutoSaveComposites(biomarkers, measurements, now, users[u]).measurements # measurements
    /\ \E i, j \in DOMAIN measurements :
         /\ measurements[i].user_id = u
         /\ measurements[j].user_id # u
         /\ measurements[i].biomarker_id = measurements[j].biomarker_id

\* C20: a resolve call with auto_create false for a name that has no code,
\* synonym or substring match returns null without raising, and leaves
\* the Biomarker catalog and the Synonym set as they were.
C20_NoMatchNoCreate ==
  [][(/\ ret'.op = "resolve_biomarker"
      /\ ~ret'.auto_create
      /\ CodeMatches(biomarkers, ret'.original_name) = {}
      /\ SynonymMatches(synonyms, ret'.original_name) = {}
      /\ SubstringMatches(biomarkers, ret'.original_name) = {})
       => /\ ret'.raised = "none"
          /\ ret'.result = 0
          /\ biomarkers' = biomarkers
          /\ synonyms' = synonyms]_vars

\* such a call has returned on a catalog that holds biomarkers and synonyms
C20_Witness ==
  /\ ret.op = "resolve_biomarker"
  /\ ~ret.auto_create
  /\ ret.result = 0
  /\ biomarkers # <<>>
  /\ synonyms # <<>>
  /\ CodeMatches(biomarkers, ret.original_name) = {}
  /\ SynonymMatches(synonyms, ret.original_name) = {}
  /\ SubstringMatches(biomarkers, ret.original_name) = {}

\* the band of a delta for four ascending thresholds, each band starting at
\* its threshold
C21_Band(delta, t1, t2, t3, t4) ==
  IF RLt(delta, t1) THEN "Excellent"
  ELSE IF RLe(t1, delta) /\ RLt(delta, t2) THEN "Good"
  ELSE IF RLe(t2, delta) /\ RLt(delta, t3) THEN "Average"
  ELSE IF RLe(t3, delta) /\ RLt(delta, t4) THEN "Fair"
  ELSE IF RLe(t4, delta) THEN "Poor"
  ELSE "undefined"

\* C21: the PhenoAge interpretation of a delta is its band for the
\* thresholds -5, -2, 2, 5 and the Simple-BioAge interpretation its band for
\* -3, -1, 1, 3; a delta equal to a threshold is in the band that starts
\* there, and every delta has a band.
C21_InterpretationBands ==
  /\ ret.op = "get_phenoage_interpretation"
       => ret.result = C21_Band(ret.age_delta, R(-5), R(-2), R(2), R(5))
  /\ ret.op = "get_bioage_interpretation"
       => ret.result = C21_Band(ret.age_delta, R(-3), R(-1), R(1), R(3))

\* a delta on a threshold has been interpreted
C21_Witness ==
  /\ ret.op = "get_phenoage_interpretation"
  /\ ret.age_delta = R(-5)
  /\ ret.result = "Good"

\* the value of the person's row for a biomarker code sampled within the
\* last `days` days, None without one (a person has at most one row per
\* biomarker in these states)
C22_Latest(code, days) ==
  LET rows == {i \in DOMAIN measurements :
                 /\ measurements[i].user_id = 1
                 /\ CodeTaken(biomarkers, code)
                 /\ measurements[i].biomarker_id = BiomarkerIdByCode(biomarkers, code)
                 /\ measurements[i].created_at.day >= now.day - days}
  IN IF rows = {} THEN None ELSE measurements[CHOOSE i \in rows : TRUE].value_std

\* C22: the ratio composites return without raising; atherogenic_index is
\* null when the latest HDL is <= 0 and total cholesterol / HDL when both
\* inputs are present and HDL > 0; bmi is null when the latest height is
\* <= 0; non_hdl is total cholesterol minus HDL when both are present, a
\* zero or negative difference included.
C22_RatioComposites ==
  LET chol == C22_Latest(CHOL, LookbackDays)
      hdl == C22_Latest(HDL, LookbackDays)
      height == C22_Latest(HEIGHT, AnthropometricLookbackDays)
  IN /\ ret.op \in {"non_hdl", "atherogenic_index", "bmi"} => ret.raised = "none"
     /\ ret.op = "atherogenic_index"
          => /\ (hdl # None /\ RLe(hdl, R(0))) => ret.result = None
             /\ (chol # None /\ hdl # None /\ RLt(R(0), hdl)) => ret.result = RDiv(chol, hdl)
     /\ ret.op = "bmi" => ((height # None /\ RLe(height, R(0))) => ret.result = None)
     /\ ret.op = "non_hdl"
          => ((chol # None /\ hdl # None) => ret.result = RSub(chol, hdl))

\* atherogenic_index has returned null for a stored HDL of zero with total
\* cholesterol present
C22_Witness ==
  /\ ret.op = "atherogenic_index"
  /\ C22_Latest(CHOL, LookbackDays) = R(5)
  /\ C22_Latest(HDL, LookbackDays) = R(0)
  /\ ret.result = None

\* C23: an egfr call returns null exactly when the person has no creatinine
\* row inside the 30-day window or no integer age; otherwise it returns a
\* value computed with kappa 0.7, alpha -0.241, sex_factor 1.012 for a
\* female person and kappa 0.9, alpha -0.302, sex_factor 1.0 for any other.
C23_EgfrNullAndConstants ==
  ret.op = "egfr"
    => LET creat == C22_Latest(CREAT, LookbackDays)
           age == ScoreAge(users[1], now)
           female == users[1].sex = "f"
       IN /\ ret.raised = "none"
          /\ ret.result = None <=> (creat = None \/ ~age.known)
          /\ ret.result # None
               => /\ ret.result.kappa = (IF female THEN Rat(7, 10) ELSE Rat(9, 10))
                  /\ ret.result.alpha = (IF female THEN Rat(-241, 1000) ELSE Rat(-302, 1000))
                  /\ ret.result.sex_factor = (IF female THEN Rat(1012, 1000) ELSE R(1))

\* the person's calculated rows of one biomarker
C24_Calculated(ms, u, bm) ==
  {i \in DOMAIN ms : /\ ms[i].user_id = u
                     /\ ms[i].biomarker_id = bm
                     /\ ms[i].source_type = "calculated"}

\* C24: while the clock stays within one day, every step of the pipeline
\* (approvals run the persist step one after another, manual entries add raw
\* rows in between) leaves at most one calculated Measurement per person and
\* composite biomarker; after an approval whose persist step computed a
\* non-null value for the composite that row holds this value, and every
\* other step leaves the row as it was.
C24_PersistDeduplicates ==
  [][ticks' = 0 =>
       \A u \in UserIds : \A k \in DOMAIN CompositeCodes :
         LET bm == BiomarkerIdByCode(biomarkers, CompositeCodes[k])
             calculated == C24_Calculated(measurements', u, bm)
             computed == CalculateAllComposites(biomarkers, measurements', now, users[u])[k]
         IN bm # 0 =>
              /\ Cardinality(calculated) <= 1
              /\ \A i \in calculated :
                   IF /\ ret'.op = "approve" /\ ret'.raised = "none" /\ ret'.user_id = u
                      /\ computed.value # None
                   THEN measurements'[i].value_std = computed.value
                   ELSE i \in DOMAIN measurements /\ measurements[i] = measurements'[i]]_vars

\* an approval has just rewritten a calculated row that an earlier approval
\* inserted, and the input row stored after it is the later sampled of two rows
\* in the lookback window that differ in value
C24_Witness ==
  /\ ticks = 0 /\ ret.op = "approve" /\ ret.raised = "none"
  /\ \E i, j1, j2 \in DOMAIN measurements :
       /\ j1 < i /\ i < j2
       /\ measurements[i].source_type = "calculated"
       /\ measurements[i].user_id = ret.user_id
       /\ measurements[j1].user_id = ret.user_id /\ measurements[j2].user_id = ret.user_id
       /\ measurements[j1].source_type # "calculated"
       /\ measurements[j2].source_type # "calculated"
       /\ measurements[j1].biomarker_id = measurements[j2].biomarker_id
       /\ measurements[j1].value_std # measurements[j2].value_std
       /\ ~StrGe(measurements[j1].sample_datetime, measurements[j2].sample_datetime)
       /\ StrGe(measurements[j1].sample_datetime, IsoFormat(MinusDays(now, LookbackDays)))
       /\ measurements[i].sample_datetime = IsoFormat(now)

C25_Opposite(sex) == IF sex = "m" THEN "f" ELSE IF sex = "f" THEN "m" ELSE "none"

\* C25: for a person whose sex is m or f, select_reference does not return a
\* range of the opposite sex when the biomarker has a candidate range whose
\* sex facet is the person's sex or "any".
C25_NoOppositeSexRange ==
  (ret.op = "select_reference" /\ users[ret.user_id].sex \in {"m", "f"}) =>
    ((\E i \in C6_Candidates : ranges[i].sex \in {users[ret.user_id].sex, "any"})
       => (ret.result = None \/ ret.result.sex # C25_Opposite(users[ret.user_id].sex)))

\* the rows the last read of both engines looked at
C26_Rows ==
  {i \in DOMAIN measurements : /\ measurements[i].user_id = ret.user_id
                               /\ measurements[i].biomarker_id = ret.biomarker_id}

\* C26: when both engines read a biomarker of a person (CREAT, HDL) whose
\* measurements all lie inside the composite lookback window and differ in
\* sample timestamp and in creation instant, get_latest_biomarker_value and
\* get_latest_value return the same value, the value of the measurement with
\* the greatest sample timestamp.
C26_EnginesAgreeOnLatest ==
  (/\ ret.op = "latest" /\ ret.at = now /\ ret.stored = Len(measurements)
   /\ C26_Rows # {}
   /\ \A i \in C26_Rows :
        StrGe(measurements[i].sample_datetime, IsoFormat(MinusDays(now, LookbackDays)))
   /\ \A i, j \in C26_Rows :
        i # j => /\ measurements[i].sample_datetime # measurements[j].sample_datetime
                 /\ measurements[i].created_at # measurements[j].created_at)
  => /\ ret.bioage = ret.composite
     /\ \E i \in C26_Rows :
          /\ \A j \in C26_Rows :
               StrGe(measurements[i].sample_datetime, measurements[j].sample_datetime)
          /\ ret.bioage = measurements[i].value_std

\* the row get_biomarker_stats reported as the latest in its last call
C27_Latest ==
  LatestRow(measurements,
            {i \in DOMAIN measurements : /\ measurements[i].user_id = ret.user_id
                                         /\ measurements[i].biomarker_id = ret.biomarker_id})

\* C27: when get_biomarker_stats reports a latest measurement and a range is
\* selected for it, the status it reports equals the status of that
\* measurement in its own history list, in the timeline (when the timeline
\* can be built) and in the dashboard overview.
C27_ViewsAgreeOnStatus ==
  (/\ ret.op = "get_biomarker_stats" /\ ret.raised = "none"
   /\ ret.result.count > 0 /\ ret.result.reference # None)
  => LET timeline == GetTimeline(biomarkers, ranges, measurements, now, users[ret.user_id])
         overview == Overview(biomarkers, ranges, measurements, now, users[ret.user_id])
     IN /\ ret.result.history[1].status = ret.result.status
        /\ timeline.raised = "none" =>
             \A d \in DOMAIN timeline.value :
               \A k \in DOMAIN timeline.value[d].measurements :
                 timeline.value[d].measurements[k].id = measurements[C27_Latest].id
                   => timeline.value[d].measurements[k].status = ret.result.status
        /\ \A k \in DOMAIN overview.value :
             overview.value[k].id = ret.biomarker_id
               => overview.value[k].status = ret.result.status

\* C28: of two calls resolve(name, auto_create=true) for the same name, made
\* one after the other with or without calls for other names in between,
\* both return the same Biomarker, the first creates at most one Biomarker
\* and one Synonym and the second creates nothing.
C28_ResolveTwiceStable ==
  \A i, j \in DOMAIN sessions :
    (i < j /\ sessions[i].original_name = sessions[j].original_name) =>
      /\ sessions[i].raised = "none" /\ sessions[j].raised = "none"
      /\ sessions[i].result # 0
      /\ sessions[j].result = sessions[i].result
      /\ sessions[i].biomarkers_created <= 1 /\ sessions[i].synonyms_created <= 1
      /\ sessions[j].biomarkers_created = 0 /\ sessions[j].synonyms_created = 0

C29_Blank(name) == NameLower(name) = <<>>

\* C29: an observed name that is empty or only blanks does not resolve to a
\* catalog Biomarker (with auto_create=false the call returns null), and a
\* call that ends at the substring step was made with a non-blank name that
\* contains, or is contained in, a non-empty display name of the Biomarker
\* returned.
C29_BlankNameResolvesToNothing ==
  ret.op = "resolve_biomarker" =>
    /\ C29_Blank(ret.original_name) =>
         /\ ret.step \notin {"code", "synonym", "substring"}
         /\ ~ret.auto_create => (ret.raised = "none" /\ ret.result = 0)
    /\ ret.step = "substring" =>
         /\ ~C29_Blank(ret.original_name)
         /\ \E n \in {PyLower(BiomarkerRow(biomarkers, ret.result).name_en),
                       PyLower(BiomarkerRow(biomarkers, ret.result).name_ru)} :
              /\ n # <<>>
              /\ \/ IsSubstring(NameLower(ret.original_name), n)
                 \/ IsSubstring(n, NameLower(ret.original_name))

====
